---- MODULE Spec2Model ----
(***************************************************************************)
(* Model of the test-generation core of testgen-ai:                        *)
(*   backend/context_aware_generator.py  (ContextAwareTestGenerator)       *)
(*   backend/main.py                     (callers of the generator)        *)
(*                                                                         *)
(* Text is modelled by TLA+ strings, one character per position.  Three    *)
(* characters that a TLA+ string literal cannot hold are written with a    *)
(* stand-in character that occurs nowhere else in the modelled text:       *)
(*   BT    the backtick U+0060 (three of them make the fence);             *)
(*   DOTI  U+0130, LATIN CAPITAL LETTER I WITH DOT ABOVE;                  *)
(*   CDOT  U+0307, COMBINING DOT ABOVE.                                    *)
(* A text that the parser scans (a provider's reply, the mock content) is  *)
(* held as the sequence of its lines, which is what content.split('\n')    *)
(* yields; a file's content is a string.                                   *)
(* The long fixed templates of the generator are abridged: every line that *)
(* holds a substituted value, every fence line and the lines that tell one *)
(* template from another are kept, in source order.                        *)
(***************************************************************************)
EXTENDS Integers, Sequences, FiniteSets, TLC

BT == "|"
DOTI == "^"
CDOT == "~"
NL == "\n"
FENCE == BT \o BT \o BT

(***************************************************************************)
(* Python str primitives.                                                  *)
(***************************************************************************)
UpperLetters == "ABCDEFGHIJKLMNOPQRSTUVWXYZ"
LowerLetters == "abcdefghijklmnopqrstuvwxyz"
Digits == "0123456789"
Whitespace == {" ", NL, "\t"}

Char(s, i) == SubSeq(s, i, i)

IndexIn(c, alphabet) ==
    IF \E i \in 1..Len(alphabet) : Char(alphabet, i) = c
    THEN CHOOSE i \in 1..Len(alphabet) : Char(alphabet, i) = c
    ELSE 0

\* str.isalnum() of one character
IsAlnum(c) ==
    \/ IndexIn(c, UpperLetters) > 0
    \/ IndexIn(c, LowerLetters) > 0
    \/ IndexIn(c, Digits) > 0
    \/ c = DOTI

\* a cased character, as str.title() sees it
IsCased(c) ==
    \/ IndexIn(c, UpperLetters) > 0
    \/ IndexIn(c, LowerLetters) > 0
    \/ c = DOTI

\* str.lower() of one character: the full case mapping, under which
\* U+0130 becomes the two characters "i" U+0307
LowerChar(c) ==
    IF IndexIn(c, UpperLetters) > 0 THEN Char(LowerLetters, IndexIn(c, UpperLetters))
    ELSE IF c = DOTI THEN "i" \o CDOT
    ELSE c

\* the title-case mapping of one character
TitleChar(c) ==
    IF IndexIn(c, LowerLetters) > 0 THEN Char(UpperLetters, IndexIn(c, LowerLetters))
    ELSE c

RECURSIVE LowerRange(_, _, _)
\* the lowered characters of s[lo..hi], in order (built by halves, which keeps
\* the evaluation shallow)
LowerRange(s, lo, hi) ==
    IF lo > hi THEN ""
    ELSE IF lo = hi THEN LowerChar(Char(s, lo))
    ELSE LowerRange(s, lo, (lo + hi) \div 2) \o LowerRange(s, (lo + hi) \div 2 + 1, hi)

\* str.lower()
Lower(s) == LowerRange(s, 1, Len(s))

RECURSIVE TitleRange(_, _, _)
\* str.title() on s[lo..hi]: a character after a cased one is lowered, any other
\* is title-cased
TitleRange(s, lo, hi) ==
    IF lo > hi THEN ""
    ELSE IF lo = hi
    THEN IF lo > 1 /\ IsCased(Char(s, lo - 1)) THEN LowerChar(Char(s, lo))
         ELSE TitleChar(Char(s, lo))
    ELSE TitleRange(s, lo, (lo + hi) \div 2) \o TitleRange(s, (lo + hi) \div 2 + 1, hi)

\* str.title()
Title(s) == TitleRange(s, 1, Len(s))

StartsWith(s, p) == Len(s) >= Len(p) /\ SubSeq(s, 1, Len(p)) = p

\* s.endswith(p)
EndsWith(s, p) == Len(s) >= Len(p) /\ SubSeq(s, Len(s) - Len(p) + 1, Len(s)) = p

\* p in s, for a non-empty p
Contains(s, p) == \E i \in 1..(Len(s) - Len(p) + 1) : SubSeq(s, i, i + Len(p) - 1) = p

\* s.find(p) + 1: the place of the first occurrence, 0 if there is none
Find(s, p) ==
    LET hits == {i \in 1..(Len(s) - Len(p) + 1) : SubSeq(s, i, i + Len(p) - 1) = p}
    IN IF hits = {} THEN 0 ELSE CHOOSE i \in hits : \A j \in hits : i <= j

RECURSIVE Replace(_, _, _)
\* str.replace(old, new), for a non-empty old
Replace(s, old, new) ==
    LET at == Find(s, old)
    IN IF at = 0 THEN s
       ELSE SubSeq(s, 1, at - 1) \o new \o Replace(SubSeq(s, at + Len(old), Len(s)), old, new)

\* str.split(sep) for a one-character sep: the pieces between the occurrences of
\* sep, always at least one piece
Split(s, sep) ==
    LET at == {i \in 1..Len(s) : Char(s, i) = sep}
        rank == [i \in at |-> Cardinality({j \in at : j < i})]
        \* the place of the k-th occurrence; 0 before the first, Len(s) + 1 after the last
        place(k) == IF k = 0 THEN 0
                    ELSE IF k > Cardinality(at) THEN Len(s) + 1
                    ELSE CHOOSE i \in at : rank[i] = k - 1
    IN [k \in 1..(Cardinality(at) + 1) |-> SubSeq(s, place(k - 1) + 1, place(k) - 1)]

\* str.split(sep, 1)[1], for an s that holds sep
AfterFirst(s, sep) == SubSeq(s, Find(s, sep) + Len(sep), Len(s))

RECURSIVE JoinRange(_, _, _, _)
JoinRange(parts, sep, lo, hi) ==
    IF lo > hi THEN ""
    ELSE IF lo = hi THEN parts[lo]
    ELSE JoinRange(parts, sep, lo, (lo + hi) \div 2) \o sep
         \o JoinRange(parts, sep, (lo + hi) \div 2 + 1, hi)

\* sep.join(parts)
Join(parts, sep) == JoinRange(parts, sep, 1, Len(parts))

RECURSIVE RStrip(_)
\* str.rstrip()
RStrip(s) ==
    IF Len(s) > 0 /\ Char(s, Len(s)) \in Whitespace THEN RStrip(SubSeq(s, 1, Len(s) - 1)) ELSE s

RECURSIVE LStrip(_)
LStrip(s) ==
    IF Len(s) > 0 /\ Char(s, 1) \in Whitespace THEN LStrip(SubSeq(s, 2, Len(s))) ELSE s

\* str.strip()
Strip(s) == LStrip(RStrip(s))

\* c if c.isalnum() or c in (' ', '-', '_'), else nothing
KeepNameChar(c) == IF IsAlnum(c) \/ c \in {" ", "-", "_"} THEN c ELSE ""

RECURSIVE KeepRange(_, _, _)
\* "".join(c for c in s[lo..hi] if c.isalnum() or c in (' ', '-', '_'))
KeepRange(s, lo, hi) ==
    IF lo > hi THEN ""
    ELSE IF lo = hi THEN KeepNameChar(Char(s, lo))
    ELSE KeepRange(s, lo, (lo + hi) \div 2) \o KeepRange(s, (lo + hi) \div 2 + 1, hi)

\* the clean_name of _generate_mock_content and _create_default_test_structure
CleanName(feature_name) ==
    Lower(Replace(RStrip(KeepRange(feature_name, 1, Len(feature_name))), " ", "_"))

\* a string given by its lines
Text(lines) == Join(lines, NL)

RECURSIVE LinesOfRange(_, _, _)
LinesOfRange(parts, lo, hi) ==
    IF lo > hi THEN <<>>
    ELSE IF lo = hi THEN Split(parts[lo], NL)
    ELSE LinesOfRange(parts, lo, (lo + hi) \div 2)
         \o LinesOfRange(parts, (lo + hi) \div 2 + 1, hi)

\* the lines of the text '\n'.join(parts): a part that holds newlines gives
\* several lines
LinesOf(parts) == LinesOfRange(parts, 1, Len(parts))

(***************************************************************************)
(* The request's inputs.  A context is what generate_tests_async builds:   *)
(* project_context and the list context_sources of {type, extracted}.      *)
(* A config is a record that may lack llm_provider.                        *)
(***************************************************************************)
\* the lookup with the other provider as its default
LlmProviderDefaultAnthropic(config) ==
    IF "llm_provider" \in DOMAIN config THEN config.llm_provider ELSE "anthropic"

\* dict.get("llm_provider", "openai")
LlmProvider(config) ==
    IF "llm_provider" \in DOMAIN config THEN config.llm_provider ELSE "openai"

\* source.get("type") == "url" and source.get("extracted", {}).get("url")
IsUrlSource(source) == source.type = "url" /\ source.extracted.url # ""

\* the scan for the first url source: its place in context_sources, 0 if none
FirstUrlSource(context) ==
    IF \E i \in 1..Len(context.context_sources) : IsUrlSource(context.context_sources[i])
    THEN CHOOSE i \in 1..Len(context.context_sources) :
            /\ IsUrlSource(context.context_sources[i])
            /\ \A j \in 1..(i - 1) : ~IsUrlSource(context.context_sources[j])
    ELSE 0

\* base_url of _generate_mock_content
MockBaseUrl(context) ==
    IF FirstUrlSource(context) = 0 THEN "https://example.com"
    ELSE context.context_sources[FirstUrlSource(context)].extracted.url

\* the scan without the break: the last url source wins
FeatureBaseUrlLast(context) ==
    LET at == {i \in 1..Len(context.context_sources) : IsUrlSource(context.context_sources[i])}
    IN IF at = {} THEN "https://example.com"
       ELSE context.context_sources[CHOOSE i \in at : \A j \in at : j <= i].extracted.url

\* base_url of _get_default_feature_file
FeatureBaseUrl(context) ==
    IF FirstUrlSource(context) = 0 THEN "https://example.com"
    ELSE context.context_sources[FirstUrlSource(context)].extracted.url

\* page_title of _get_default_feature_file
FeaturePageTitle(context) ==
    IF FirstUrlSource(context) = 0 THEN "the application"
    ELSE context.context_sources[FirstUrlSource(context)].extracted.title

\* base_url of _get_default_config
ConfigBaseUrl(context) ==
    IF FirstUrlSource(context) = 0 THEN "https://example.com"
    ELSE context.context_sources[FirstUrlSource(context)].extracted.url

\* a JSON string literal as json.dumps writes it (ensure_ascii)
JsonString(s) ==
    "\"" \o Replace(Replace(Replace(Replace(s, "\\", "\\\\"), "\"", "\\\""), NL, "\\n"),
                    DOTI, "\\u0130") \o "\""

RECURSIVE JsonSources(_, _)
JsonSources(sources, i) ==
    IF i > Len(sources) THEN <<>>
    ELSE << "    {",
            "      \"type\": " \o JsonString(sources[i].type) \o ",",
            "      \"extracted\": {",
            "        \"url\": " \o JsonString(sources[i].extracted.url) \o ",",
            "        \"title\": " \o JsonString(sources[i].extracted.title),
            "      }",
            IF i < Len(sources) THEN "    }," ELSE "    }" >>
         \o JsonSources(sources, i + 1)

\* json.dumps(context, indent=2), as lines
ContextJson(context) ==
    << "{",
       "  \"project_context\": " \o JsonString(context.project_context) \o ",",
       IF Len(context.context_sources) = 0
       THEN "  \"context_sources\": []" ELSE "  \"context_sources\": [" >>
    \o JsonSources(context.context_sources, 1)
    \o (IF Len(context.context_sources) = 0 THEN <<>> ELSE << "  ]" >>)
    \o << "}" >>

\* json.dumps(config, indent=2), as lines
ConfigJson(config) ==
    IF "llm_provider" \in DOMAIN config
    THEN << "{", "  \"llm_provider\": " \o JsonString(config.llm_provider), "}" >>
    ELSE << "{}" >>

(***************************************************************************)
(* _generate_mock_content: the template, its fence lines written as in the *)
(* source (no colon on any of them), with the five values substituted.     *)
(***************************************************************************)
_generate_mock_content(feature_name, context, config) ==
    LET clean_name == CleanName(feature_name)
        base_url == MockBaseUrl(context)
        clean_name_title == Replace(Title(clean_name), "_", "")
    IN LinesOf(
        << "# Mock Test Generation for: " \o feature_name,
           "",
           "## Generated Test Files:",
           "",
           FENCE \o "pom.xml",
           "<?xml version=\"1.0\" encoding=\"UTF-8\"?>",
           "<project xmlns=\"http://maven.apache.org/POM/4.0.0\"",
           "</project>",
           FENCE,
           "",
           FENCE \o "src/test/java/TestRunner.java",
           "package com.testgen;",
           "    plugin = {\"pretty\", \"html:target/cucumber-reports\"},",
           "public class TestRunner {",
           "}",
           FENCE,
           "",
           FENCE \o "src/test/resources/features/" \o clean_name \o ".feature",
           "Feature: " \o feature_name,
           "  As a user",
           "  I want to test the " \o feature_name \o " functionality",
           "",
           "  Scenario: Basic functionality test",
           "    Given I am on the page at \"" \o base_url \o "\"",
           "",
           "  Scenario: Error handling test",
           "    Given I am on the page at \"" \o base_url \o "\"",
           FENCE,
           "",
           FENCE \o "src/test/java/stepdefinitions/" \o clean_name \o "_steps.java",
           "package com.testgen.stepdefinitions;",
           "public class " \o clean_name_title \o "Steps {",
           "}",
           FENCE,
           "",
           FENCE \o "README.md",
           "# " \o feature_name \o " Test Suite",
           "",
           "This test suite was generated by TestGen AI for testing the "
               \o feature_name \o " functionality.",
           "## Running Tests",
           FENCE \o "bash",
           "mvn clean test",
           FENCE,
           "",
           "## Note",
           "This is a mock test suite generated for development purposes. ",
           FENCE,
           "",
           "## Context Information Used:" >>
        \o ContextJson(context)
        \o << "", "## Configuration Used:" >>
        \o ConfigJson(config)
        \o << "" >>)

(***************************************************************************)
(* The default project skeleton.                                           *)
(***************************************************************************)
_get_default_pom ==
    Text(<< "<?xml version=\"1.0\" encoding=\"UTF-8\"?>",
            "<project xmlns=\"http://maven.apache.org/POM/4.0.0\"",
            "    <artifactId>selenium-cucumber-tests</artifactId>",
            "            <artifactId>cucumber-java</artifactId>",
            "            <artifactId>cucumber-junit</artifactId>",
            "            <artifactId>selenium-java</artifactId>",
            "            <artifactId>webdrivermanager</artifactId>",
            "            <artifactId>junit-jupiter</artifactId>",
            "</project>" >>)

_get_default_test_runner(feature_name) ==
    Text(<< "package com.testgen;",
            "@RunWith(Cucumber.class)",
            "    features = \"src/test/resources/features\",",
            "    glue = \"com.testgen.stepdefinitions\",",
            "public class TestRunner {",
            "}" >>)

_get_default_base_page ==
    Text(<< "package com.testgen.pages;",
            "public class BasePage {",
            "    protected WebDriver driver;",
            "}" >>)

\* ' '.join(word for word in feature_name.split('_')
\*          if word.lower() not in ['search', 'for', 'a', 'an', 'the']), "items" if empty
SearchTerm(feature_name) ==
    LET kept == SelectSeq(Split(feature_name, "_"),
                          LAMBDA word : Lower(word) \notin {"search", "for", "a", "an", "the"})
    IN IF Join(kept, " ") = "" THEN "items" ELSE Join(kept, " ")

RECURSIVE TitleWords(_, _)
TitleWords(words, i) ==
    IF i > Len(words) THEN "" ELSE Title(words[i]) \o TitleWords(words, i + 1)

_get_default_step_definitions(feature_name) ==
    LET class_name == TitleWords(Split(feature_name, "_"), 1)
        feature_lower == Lower(feature_name)
    IN IF Contains(feature_lower, "search")
       THEN Text(<< "package com.testgen.stepdefinitions;",
                    "public class " \o class_name \o "Steps {",
                    "    @Given(\"I navigate to {string}\")",
                    "    @And(\"I wait for the search box to be visible\")",
                    "        wait.until(ExpectedConditions.visibilityOfElementLocated(By.name(\"q\")));",
                    "    @When(\"I enter {string} in the Google search box\")",
                    "    @And(\"I click the Google Search button\")",
                    "        WebElement searchButton = driver.findElement(By.name(\"btnK\"));",
                    "    @Then(\"I should see search results for {string}\")",
                    "        wait.until(ExpectedConditions.presenceOfElementLocated(By.id(\"search\")));",
                    "    @Then(\"I should see search suggestions dropdown\")",
                    "    @Then(\"I should see the second page of results\")",
                    "    @Then(\"I should see image results for {string}\")",
                    "    @Then(\"search results should load within {int} seconds\")",
                    "}" >>)
       ELSE Text(<< "package com.testgen.stepdefinitions;",
                    "public class " \o class_name \o "Steps {",
                    "    @Given(\"I navigate to {string}\")",
                    "    @And(\"the page loads successfully\")",
                    "    @When(\"I interact with the " \o Replace(feature_name, "_", " ")
                        \o " feature\")",
                    "    @And(\"I provide valid input data\")",
                    "    @And(\"I submit the form\")",
                    "    @Then(\"the action should complete successfully\")",
                    "    @And(\"I should see a confirmation message\")",
                    "}" >>)

\* the Google-specific search scenarios
GoogleSearchScenarios(search_term, base_url) ==
    Text(<< "  Background:",
            "    Given I navigate to \"" \o base_url \o "\"",
            "    And I wait for the search box to be visible",
            "",
            "  Scenario: Search for " \o search_term \o " with valid query",
            "    When I enter \"" \o search_term \o "\" in the Google search box",
            "    And I press Enter or click the Google Search button",
            "",
            "  Scenario: Verify search suggestions for " \o search_term,
            "    When I start typing \""
                \o (IF Len(search_term) > 5 THEN SubSeq(search_term, 1, 5) ELSE search_term)
                \o "\" in the Google search box",
            "    Then I should see search suggestions dropdown",
            "",
            "  Scenario: Search with multiple keywords",
            "",
            "  Scenario: Search with special characters",
            "",
            "  Scenario: Navigate through search result pages",
            "    When I click on the \"Next\" button at the bottom",
            "",
            "  Scenario: Search and apply filters",
            "    When I click on the \"Images\" tab",
            "",
            "  Scenario: Verify search results load time",
            "    Then search results should load within 3 seconds" >>)

\* the generic search scenarios
GenericSearchScenarios(search_term, base_url) ==
    Text(<< "  Background:",
            "    Given I navigate to \"" \o base_url \o "\"",
            "    And I wait for the page to load completely",
            "",
            "  Scenario: Search for " \o search_term \o " with valid query",
            "    When I locate the search input field",
            "    And I enter \"" \o search_term \o "\" in the search box",
            "",
            "  Scenario: Search with empty query",
            "",
            "  Scenario: Search with non-existent " \o search_term,
            "    When I enter \"xyznonexistent123" \o search_term \o "\" in the search box",
            "    Then I should see \"no results found\" or similar message",
            "",
            "  Scenario: Search and filter results",
            "    And I apply category or price filters" >>)

AuthenticationScenarios(base_url) ==
    Text(<< "  Background:",
            "    Given I navigate to \"" \o base_url \o "\"",
            "",
            "  Scenario: Successful login with valid credentials",
            "",
            "  Scenario: Login with invalid credentials",
            "",
            "  Scenario: Login with empty fields" >>)

RegistrationScenarios(base_url) ==
    Text(<< "  Background:",
            "    Given I navigate to \"" \o base_url \o "\"",
            "",
            "  Scenario: Successful user registration",
            "",
            "  Scenario: Registration with existing email",
            "",
            "  Scenario: Registration with weak password" >>)

CheckoutScenarios(base_url) ==
    Text(<< "  Background:",
            "    Given I navigate to \"" \o base_url \o "\"",
            "    And I add items to cart",
            "",
            "  Scenario: Complete checkout process",
            "",
            "  Scenario: Checkout with empty cart",
            "",
            "  Scenario: Apply coupon code during checkout" >>)

GenericScenarios(feature_name, base_url) ==
    Text(<< "  Background:",
            "    Given I navigate to \"" \o base_url \o "\"",
            "    And the page loads successfully",
            "",
            "  Scenario: Verify " \o Replace(feature_name, "_", " ") \o " functionality",
            "    When I interact with the " \o Replace(feature_name, "_", " ") \o " feature",
            "",
            "  Scenario: Test " \o Replace(feature_name, "_", " ") \o " with invalid data",
            "",
            "  Scenario: Test " \o Replace(feature_name, "_", " ") \o " error handling" >>)

\* the chain with the registration test ahead of the authentication test
ScenariosRegistrationFirst(feature_name, feature_lower, base_url, page_title) ==
    IF Contains(feature_lower, "search")
    THEN IF Contains(Lower(base_url), "google")
         THEN GoogleSearchScenarios(SearchTerm(feature_name), base_url)
         ELSE GenericSearchScenarios(SearchTerm(feature_name), base_url)
    ELSE IF \/ Contains(feature_lower, "register")
            \/ Contains(feature_lower, "signup")
            \/ Contains(feature_lower, "sign up")
    THEN RegistrationScenarios(base_url)
    ELSE IF \/ Contains(feature_lower, "login")
            \/ Contains(feature_lower, "signin")
            \/ Contains(feature_lower, "auth")
    THEN AuthenticationScenarios(base_url)
    ELSE IF \/ Contains(feature_lower, "checkout")
            \/ Contains(feature_lower, "cart")
            \/ Contains(feature_lower, "purchase")
    THEN CheckoutScenarios(base_url)
    ELSE GenericScenarios(feature_name, base_url)

\* the chain with the google test made on the feature name
ScenariosGoogleByName(feature_name, feature_lower, base_url, page_title) ==
    IF Contains(feature_lower, "search")
    THEN IF Contains(feature_lower, "google")
         THEN GoogleSearchScenarios(SearchTerm(feature_name), base_url)
         ELSE GenericSearchScenarios(SearchTerm(feature_name), base_url)
    ELSE IF \/ Contains(feature_lower, "login")
            \/ Contains(feature_lower, "signin")
            \/ Contains(feature_lower, "auth")
    THEN AuthenticationScenarios(base_url)
    ELSE IF \/ Contains(feature_lower, "register")
            \/ Contains(feature_lower, "signup")
            \/ Contains(feature_lower, "sign up")
    THEN RegistrationScenarios(base_url)
    ELSE IF \/ Contains(feature_lower, "checkout")
            \/ Contains(feature_lower, "cart")
            \/ Contains(feature_lower, "purchase")
    THEN CheckoutScenarios(base_url)
    ELSE GenericScenarios(feature_name, base_url)

\* the if / elif chain on feature_lower
_generate_intelligent_scenarios(feature_name, feature_lower, base_url, page_title) ==
    IF Contains(feature_lower, "search")
    THEN IF Contains(Lower(base_url), "google")
         THEN GoogleSearchScenarios(SearchTerm(feature_name), base_url)
         ELSE GenericSearchScenarios(SearchTerm(feature_name), base_url)
    ELSE IF \/ Contains(feature_lower, "login")
            \/ Contains(feature_lower, "signin")
            \/ Contains(feature_lower, "auth")
    THEN AuthenticationScenarios(base_url)
    ELSE IF \/ Contains(feature_lower, "register")
            \/ Contains(feature_lower, "signup")
            \/ Contains(feature_lower, "sign up")
    THEN RegistrationScenarios(base_url)
    ELSE IF \/ Contains(feature_lower, "checkout")
            \/ Contains(feature_lower, "cart")
            \/ Contains(feature_lower, "purchase")
    THEN CheckoutScenarios(base_url)
    ELSE GenericScenarios(feature_name, base_url)

_get_default_feature_file(feature_name, content, context) ==
    LET base_url == FeatureBaseUrl(context)
        page_title == FeaturePageTitle(context)
        feature_lower == Lower(feature_name)
        scenarios == _generate_intelligent_scenarios(feature_name, feature_lower,
                                                     base_url, page_title)
    IN Text(<< "Feature: " \o Title(Replace(feature_name, "_", " ")),
               "  As a user",
               "  I want to " \o Lower(Replace(feature_name, "_", " ")),
               "  So that I can find relevant results",
               "",
               scenarios,
               "" >>)

_get_default_config(context) ==
    Text(<< "# Test Configuration",
            "browser=chrome",
            "base.url=" \o ConfigBaseUrl(context),
            "timeout=10",
            "headless=false" >>)

_get_default_readme(feature_name) ==
    Text(<< "# " \o Title(Replace(feature_name, "_", " ")) \o " Test Suite",
            "",
            "This test suite was generated by TestGen AI for testing the "
                \o Replace(feature_name, "_", " ") \o " functionality.",
            "## Running Tests",
            FENCE \o "bash",
            "mvn clean test",
            FENCE,
            "" >>)

\* d[key] = value on a dict modelled as a function
Put(d, key, value) == [k \in DOMAIN d \cup {key} |-> IF k = key THEN value ELSE d[k]]

EmptyFiles == [k \in {} |-> ""]

_create_default_test_structure(feature_name, content, context) ==
    LET clean_name == CleanName(feature_name)
        steps == "src/test/java/stepdefinitions/" \o clean_name \o "_steps.java"
        feature == "src/test/resources/features/" \o clean_name \o ".feature"
    IN Put(Put(Put(Put(Put(Put(Put(EmptyFiles,
         "pom.xml", _get_default_pom),
         "src/test/java/TestRunner.java", _get_default_test_runner(clean_name)),
         "src/test/java/pages/BasePage.java", _get_default_base_page),
         steps, _get_default_step_definitions(clean_name)),
         feature, _get_default_feature_file(clean_name, content, context)),
         "src/test/resources/config.properties", _get_default_config(context)),
         "README.md", _get_default_readme(clean_name))

(***************************************************************************)
(* _parse_generated_content.  current_file is "" where the code holds None *)
(* or the empty string: the code reads it only for its truth value.        *)
(***************************************************************************)
\* the file marker of a line: line.replace(fence, '').strip(), then what follows
\* the first ':' of it, stripped
MarkerPath(line) ==
    LET file_path == Strip(Replace(line, FENCE, ""))
    IN IF Contains(file_path, ":") THEN Strip(AfterFirst(file_path, ":")) ELSE file_path

\* if current_file and current_content: files[current_file] = '\n'.join(current_content)
SaveFile(files, current_file, current_content) ==
    IF current_file # "" /\ Len(current_content) > 0
    THEN Put(files, current_file, Join(current_content, NL))
    ELSE files

\* the state of the scan before its first line
ScanStart == [files |-> EmptyFiles, current_file |-> "", current_content |-> <<>>]

\* one pass of the for loop, on one line
ParseLine(st, line) ==
    IF StartsWith(line, FENCE) /\ Contains(line, ":")
    THEN [files |-> SaveFile(st.files, st.current_file, st.current_content),
          current_file |-> MarkerPath(line),
          current_content |-> <<>>]
    ELSE IF StartsWith(line, FENCE) /\ st.current_file = ""
    THEN st
    ELSE IF StartsWith(line, FENCE) /\ st.current_file # ""
    THEN [files |-> SaveFile(st.files, st.current_file, st.current_content),
          current_file |-> "",
          current_content |-> <<>>]
    ELSE IF st.current_file # ""
    THEN [st EXCEPT !.current_content = Append(@, line)]
    ELSE st

RECURSIVE ParseLines(_, _, _, _)
\* the for loop over lines[lo..hi], in order (evaluated by halves, which keeps the
\* evaluation shallow)
ParseLines(st, lines, lo, hi) ==
    IF lo > hi THEN st
    ELSE IF lo = hi THEN ParseLine(st, lines[lo])
    ELSE LET mid == (lo + hi) \div 2
             left == ParseLines(st, lines, lo, mid)
         \* (the test makes the evaluation of the first half precede the second)
         IN IF Len(left.current_content) >= 0
            THEN ParseLines(left, lines, mid + 1, hi) ELSE left

\* the files the scan of content records: the loop, then the save of the last file
ScannedFiles(content) ==
    LET lines == content
        st == ParseLines(ScanStart, lines, 1, Len(lines))
    IN SaveFile(st.files, st.current_file, st.current_content)

\* the scan alone, without the default for a scan that records nothing
ParseWithoutDefault(content, feature_name, context) == ScannedFiles(content)

_parse_generated_content(content, feature_name, context) ==
    IF DOMAIN ScannedFiles(content) = {}
    THEN _create_default_test_structure(feature_name, content, context)
    ELSE ScannedFiles(content)

(***************************************************************************)
(* _build_generation_prompt: the heading, one section per context source   *)
(* in the order of context_sources, then the fixed requirements block.     *)
(***************************************************************************)
\* d.get(key, default) of a dict
Get(d, key, default) == IF key \in DOMAIN d THEN d[key] ELSE default

\* seq[:n]
Prefix(seq, n) == IF Len(seq) > n THEN SubSeq(seq, 1, n) ELSE seq

FormLimit == 3
ItemLimit == 10
PreviewLimit == 500

RECURSIVE FlatRange(_, _, _)
\* the concatenation of the sequences lists[lo..hi]
FlatRange(lists, lo, hi) ==
    IF lo > hi THEN <<>> ELSE lists[lo] \o FlatRange(lists, lo + 1, hi)

\* the lines of one issue of a jira source
IssueLines(issue) ==
    << "",
       "- **" \o Get(issue, "key", "None") \o "**: " \o Get(issue, "summary", ""),
       "  - Description: " \o Get(issue, "description", ""),
       "  - Issue Type: " \o Get(issue, "issuetype", ""),
       "  - Status: " \o Get(issue, "status", "") >>

\* the section of a jira source
JiraSection(extracted) ==
    LET issues == Get(extracted, "issues", <<>>)
        criteria == Get(extracted, "acceptance_criteria", <<>>)
    IN << "", "### Jira Issues:" >>
       \o FlatRange([k \in 1..Len(issues) |-> IssueLines(issues[k])], 1, Len(issues))
       \o (IF criteria # <<>>
           THEN << "", "### Acceptance Criteria:" >>
                \o [k \in 1..Len(criteria) |-> "- " \o criteria[k]]
           ELSE <<>>)

\* the lines of one form of a url source, i counted from 1
FormLines(form, i) ==
    LET form_inputs == Get(form, "inputs", <<>>)
        shown == Prefix(form_inputs, ItemLimit)
    IN << "",
          "**Form " \o ToString(i) \o "**:",
          "- Action URL: " \o Get(form, "action", ""),
          "- Method: " \o Get(form, "method", "GET"),
          "- Input Fields (" \o ToString(Len(form_inputs)) \o "):" >>
       \o [j \in 1..Len(shown) |->
              "  - " \o Get(shown[j], "type", "text") \o " field: name='"
              \o Get(shown[j], "name", "") \o "' id='" \o Get(shown[j], "id", "")
              \o "' placeholder='" \o Get(shown[j], "placeholder", "") \o "' "
              \o (IF Get(shown[j], "required", FALSE) THEN "(required)" ELSE "")]

\* the section of a url source
UrlSection(extracted) ==
    LET forms == Get(extracted, "forms", <<>>)
        navigation == Get(extracted, "navigation", <<>>)
        buttons == Get(extracted, "buttons", <<>>)
        inputs_ == Get(extracted, "inputs", <<>>)
        shown == Prefix(forms, FormLimit)
        nav == Prefix(navigation, ItemLimit)
        btn == Prefix(buttons, ItemLimit)
    IN << "",
          "### Web Application Analysis:",
          "- **Target URL**: " \o Get(extracted, "url", ""),
          "- **Page Title**: " \o Get(extracted, "title", ""),
          "- **Forms Found**: " \o ToString(Len(forms)) \o " forms",
          "- **Navigation Items**: " \o ToString(Len(navigation)) \o " items",
          "- **Buttons Found**: " \o ToString(Len(buttons)) \o " buttons",
          "- **Input Fields**: " \o ToString(Len(inputs_)) \o " input fields",
          "",
          "### Detailed Form Analysis:" >>
       \o FlatRange([k \in 1..Len(shown) |-> FormLines(shown[k], k)], 1, Len(shown))
       \o (IF navigation # <<>>
           THEN << "", "### Navigation Structure:" >>
                \o [k \in 1..Len(nav) |->
                       "- " \o Get(nav[k], "text", "") \o " -> " \o Get(nav[k], "href", "")]
           ELSE <<>>)
       \o (IF buttons # <<>>
           THEN << "", "### Interactive Elements:" >>
                \o [k \in 1..Len(btn) |->
                       "- " \o Get(btn[k], "text", "") \o " ("
                       \o Get(btn[k], "type", "button") \o ")"]
           ELSE <<>>)

\* the section of a file source
FileSection(extracted) ==
    LET content == Get(extracted, "content", "")
    IN << "",
          "### File Content:",
          "- File: " \o Get(extracted, "file_name", ""),
          "- Type: " \o Get(extracted, "file_type", ""),
          "- Content Preview: "
              \o (IF Len(content) > PreviewLimit THEN SubSeq(content, 1, PreviewLimit)
                  ELSE content) \o "..." >>

\* what one pass of the loop over context_sources adds to the prompt
SourceSection(source) ==
    IF source.type = "jira" THEN JiraSection(source.extracted)
    ELSE IF source.type = "url" THEN UrlSection(source.extracted)
    ELSE IF source.type = "file" THEN FileSection(source.extracted)
    ELSE <<>>

RECURSIVE PromptSectionsReversed(_, _)
\* the loop run from the last source to the first
PromptSectionsReversed(sources, i) ==
    IF i > Len(sources) THEN <<>>
    ELSE PromptSectionsReversed(sources, i + 1) \o SourceSection(sources[i])

RECURSIVE PromptSections(_, _)
PromptSections(sources, i) ==
    IF i > Len(sources) THEN <<>>
    ELSE SourceSection(sources[i]) \o PromptSections(sources, i + 1)

_build_generation_prompt(feature_name, context, config) ==
    Text(<< "",
            "You are an expert QA automation engineer. Generate comprehensive Cucumber "
                \o "Selenium Java test cases for the feature: \"" \o feature_name \o "\".",
            "",
            "### Project Context:",
            JsonString(context.project_context),
            "",
            "### Context Sources:" >>
         \o PromptSections(context.context_sources, 1)
         \o << "",
               "## Test Generation Requirements:",
               "1. **Generate a complete Maven project structure** with:",
               "## Output Format:",
               "" >>)

(***************************************************************************)
(* ContextExtractor._extract_acceptance_criteria.  BULLET stands for the   *)
(* bullet character U+2022, which a TLA+ string literal cannot hold.       *)
(***************************************************************************)
BULLET == "$"

\* line.startswith(('*', '-', bullet)) or line.startswith(('1.', '2.', '3.'))
IsCriterionLine(line) ==
    \/ \E p \in {"*", "-", BULLET} : StartsWith(line, p)
    \/ \E p \in {"1.", "2.", "3."} : StartsWith(line, p)

\* the state of the loop before its first line
CriteriaStart == [criteria |-> <<>>, in_criteria_section |-> FALSE, broken |-> FALSE]

\* one pass of the for loop, on one line; broken once the loop has hit break
CriteriaLine(st, raw) ==
    LET line == Strip(raw)
    IN IF st.broken THEN st
       ELSE IF Contains(line, "Acceptance Criteria")
       THEN [st EXCEPT !.in_criteria_section = TRUE]
       ELSE IF st.in_criteria_section
       THEN IF IsCriterionLine(line) THEN [st EXCEPT !.criteria = Append(@, line)]
            ELSE IF line = "" THEN st
            ELSE [st EXCEPT !.broken = TRUE]
       ELSE st

RECURSIVE CriteriaLines(_, _, _)
\* the for loop over lines[i..]
CriteriaLines(st, lines, i) ==
    IF i > Len(lines) THEN st
    ELSE CriteriaLines(CriteriaLine(st, lines[i]), lines, i + 1)

_extract_acceptance_criteria(description) ==
    CriteriaLines(CriteriaStart, Split(description, NL), 1).criteria

(***************************************************************************)
(* ContextExtractor.extract_jira_context, one action per step.  The state  *)
(* of an extraction is a record:                                           *)
(*   status    "running", "returned" or "raised"                           *)
(*   context   the dict under construction                                 *)
(*   next      the place in issue_keys of the key to fetch next            *)
(*   requests  the fetches made so far: the key and what came back, NoIssue *)
(*             for a fetch that failed (_fetch_jira_issue returned None)   *)
(* An issue is [key, issuetype, description, has_description]; Jira sends  *)
(* null for a description that was never written.                          *)
(***************************************************************************)
NoIssue == [key |-> "", issuetype |-> "", description |-> "", has_description |-> FALSE]

\* not all([jira_url, username, api_token, issue_keys])
MissingJiraConfig(jira_config) ==
    \/ jira_config.jira_url = ""
    \/ jira_config.username = ""
    \/ jira_config.api_token = ""
    \/ jira_config.issue_keys = <<>>

\* the extraction after the check of its configuration
JiraStart(jira_config) ==
    [status |-> IF MissingJiraConfig(jira_config) THEN "raised" ELSE "running",
     context |-> [source |-> "jira", issues |-> <<>>, epics |-> <<>>, stories |-> <<>>,
                  acceptance_criteria |-> <<>>],
     next |-> 1,
     requests |-> <<>>]

\* the context after the body of "if issue_data:" for a fetched issue
JiraCollect(ctx, issue_data) ==
    [ctx EXCEPT
        !.issues = Append(@, issue_data),
        !.epics = IF issue_data.issuetype = "Epic" THEN Append(@, issue_data) ELSE @,
        !.stories = IF issue_data.issuetype = "Story" THEN Append(@, issue_data) ELSE @,
        !.acceptance_criteria =
            IF Contains(issue_data.description, "Acceptance Criteria")
            THEN @ \o _extract_acceptance_criteria(issue_data.description) ELSE @]

\* the loop with a fetch whose failure ends the extraction
JiraLoopStepAborting(st, issue_key, issue_data) ==
    IF issue_data = NoIssue
    THEN [st EXCEPT !.requests = Append(@, [key |-> issue_key, data |-> issue_data]),
                    !.next = @ + 1,
                    !.status = "raised"]
    ELSE [st EXCEPT !.requests = Append(@, [key |-> issue_key, data |-> issue_data]),
                    !.next = @ + 1,
                    !.context = JiraCollect(st.context, issue_data)]

\* one pass of the for loop: the fetch of issue_key came back with issue_data.
\* The test "Acceptance Criteria" in description raises for a null description.
JiraLoopStep(st, issue_key, issue_data) ==
    LET asked == [st EXCEPT !.requests = Append(@, [key |-> issue_key, data |-> issue_data]),
                            !.next = @ + 1]
    IN IF issue_data = NoIssue THEN asked
       ELSE IF ~issue_data.has_description
       THEN [asked EXCEPT !.status = "raised",
                          !.context = JiraCollect(st.context,
                                          [issue_data EXCEPT !.description = ""])]
       ELSE [asked EXCEPT !.context = JiraCollect(st.context, issue_data)]

(***************************************************************************)
(* ContextExtractor.extract_file_context.  A file is its text; a handle on *)
(* it reads from a position.  The parsers are given by what they make of   *)
(* the texts of the model: the value as Python prints it, ParseError where *)
(* they raise.                                                             *)
(***************************************************************************)
ParseError == "<raises>"

\* yaml.safe_load of a text
YamlSafeLoad(text) ==
    IF text = "" THEN "None"
    ELSE IF text = "a: 1" THEN "{'a': 1}"
    ELSE IF text = "{\"a\": 1}" THEN "{'a': 1}"
    ELSE IF text = "[]" THEN "[]"
    ELSE IF text = "hello" THEN "'hello'"
    ELSE IF text = "plain notes" THEN "'plain notes'"
    ELSE ParseError

\* json.load of a text
JsonLoad(text) ==
    IF text = "{\"a\": 1}" THEN "{'a': 1}"
    ELSE IF text = "[]" THEN "[]"
    ELSE ParseError

\* f.read() on a handle at position pos: what is left of the text
ReadFrom(text, pos) == SubSeq(text, pos + 1, Len(text))

\* the handle's position after a parser has consumed the file
AfterLoad(text) == Len(text)

\* the record extract_file_context returns, raised when it raises
extract_file_context(file_config) ==
    LET text == file_config.text
        start == [raised |-> FALSE, source |-> "file", file_type |-> file_config.file_type,
                  content |-> "", structured_data |-> "{}"]
        failed == [start EXCEPT !.raised = TRUE]
    IN IF file_config.file_path = "" \/ ~file_config.exists THEN failed
       ELSE IF \/ file_config.file_type = "yaml"
               \/ EndsWith(file_config.file_path, ".yml")
               \/ EndsWith(file_config.file_path, ".yaml")
       THEN IF YamlSafeLoad(text) = ParseError THEN failed
            ELSE [start EXCEPT !.structured_data = YamlSafeLoad(text),
                               !.content = ReadFrom(text, AfterLoad(text))]
       ELSE IF file_config.file_type = "json" \/ EndsWith(file_config.file_path, ".json")
       THEN IF JsonLoad(text) = ParseError THEN failed
            ELSE [start EXCEPT !.structured_data = JsonLoad(text),
                               !.content = ReadFrom(text, AfterLoad(text))]
       ELSE [start EXCEPT !.content = ReadFrom(text, 0)]

(***************************************************************************)
(* ContextExtractor.extract_url_context: the links of the fetched page.    *)
(* A page is the sequence of its anchor tags in document order, each       *)
(* [at, has_href, text]: its place, whether it has an href attribute, and  *)
(* its text.                                                               *)
(***************************************************************************)
LinkLimit == 50

\* link_data of one anchor
LinkData(anchor) ==
    [text |-> Strip(anchor.text), href |-> "/page/" \o ToString(anchor.at), title |-> ""]

\* the variant soup.find_all('a'): every anchor tag
FindAllAnchors(page) == page.anchors

\* soup.find_all('a', href=True)
FindAllLinks(page) == SelectSeq(page.anchors, LAMBDA a : a.has_href)

\* context["links"] after the loop over links[:50]
PageLinks(page) ==
    LET links == FindAllLinks(page)
        kept == IF Len(links) > LinkLimit THEN SubSeq(links, 1, LinkLimit) ELSE links
    IN [k \in 1..Len(kept) |-> LinkData(kept[k])]

\* what extract_url_context returns of the links, raised when it raises
extract_url_context(page) ==
    IF page.url = "" \/ ~page.fetched
    THEN [raised |-> TRUE, url |-> page.url, links |-> <<>>]
    ELSE [raised |-> FALSE, url |-> page.url, links |-> PageLinks(page)]

(***************************************************************************)
(* _initialize_clients_from_integrations.  A client is the record of the   *)
(* arguments it was built from; NoClient stands for None.  An integration  *)
(* is [integration_type, credentials], credentials being what json.loads   *)
(* makes of encrypted_credentials: [ok, api_key, base_url], ok false when  *)
(* the text is no JSON object, "" for a key that is absent or empty.       *)
(***************************************************************************)
NoClient == [api_key |-> "", base_url |-> ""]

\* a base endpoint the client constructor rejects
BadBaseUrl == "::"

\* the constructor of a client raises
ConstructorRaises(api_key, base_url) == base_url = BadBaseUrl

\* one pass of the for loop over self.integrations
ProcessIntegration(clients, integration, libraries) ==
    LET credentials == integration.credentials
        built == [api_key |-> credentials.api_key, base_url |-> credentials.base_url]
    IN IF integration.integration_type = "openai" /\ libraries
       THEN IF ~credentials.ok THEN [clients EXCEPT !.openai = NoClient]
            ELSE IF credentials.api_key = "" THEN clients
            ELSE IF ConstructorRaises(credentials.api_key, credentials.base_url)
            THEN [clients EXCEPT !.openai = NoClient]
            ELSE [clients EXCEPT !.openai = built]
       ELSE IF integration.integration_type = "anthropic" /\ libraries
       THEN IF ~credentials.ok THEN clients
            ELSE IF credentials.api_key = "" THEN clients
            ELSE IF ConstructorRaises(credentials.api_key, credentials.base_url)
            THEN clients
            ELSE [clients EXCEPT !.anthropic = built]
       ELSE clients

RECURSIVE ProcessIntegrations(_, _, _, _)
\* the for loop over integrations[i..]
ProcessIntegrations(clients, integrations, i, libraries) ==
    IF i > Len(integrations) THEN clients
    ELSE ProcessIntegrations(ProcessIntegration(clients, integrations[i], libraries),
                             integrations, i + 1, libraries)

\* the client built from an environment key, None without a key
ClientFromEnvironment(api_key) ==
    IF api_key = "" \/ ConstructorRaises(api_key, "") THEN NoClient
    ELSE [api_key |-> api_key, base_url |-> ""]

\* the fallback to the environment variables, after the loop
EnvironmentFallback(clients, environ, libraries) ==
    IF clients.openai = NoClient /\ clients.anthropic = NoClient /\ libraries
    THEN [openai |-> ClientFromEnvironment(environ.OPENAI_API_KEY),
          anthropic |-> ClientFromEnvironment(environ.ANTHROPIC_API_KEY)]
    ELSE clients

\* __init__ and _initialize_clients_from_integrations: the two clients
_initialize_clients_from_integrations(integrations, environ, libraries) ==
    EnvironmentFallback(
        ProcessIntegrations([openai |-> NoClient, anthropic |-> NoClient],
                            integrations, 1, libraries),
        environ, libraries)

(***************************************************************************)
(* One call of generate_tests.                                             *)
(*   feature_name, context, config   the arguments                         *)
(*   openai_client, anthropic_client whether the generator holds a client  *)
(*   pc          "idle", "awaiting" (suspended in the OpenAI call),        *)
(*               "returned" or "raised"                                    *)
(*   prompt      the prompt built, "" before                               *)
(*   generated_content  [is_none, text]: the text handed to the parser     *)
(*   test_files  the FileSet returned                                      *)
(*   error       the exception generate_tests raised, "" if none           *)
(*   calls       how often each provider was called                        *)
(*   log         what the call printed (without the exception's text)      *)
(*   arg         the argument of the function applied by a function-level  *)
(*               specification, NoArg in the others                        *)
(*   out         the results of the function applied by a function-level   *)
(*               specification                                             *)
(***************************************************************************)
VARIABLES feature_name, context, config, openai_client, anthropic_client,
          pc, prompt, generated_content, test_files, error, calls, log, arg, out

inputs == <<feature_name, context, config, openai_client, anthropic_client, arg>>
vars == <<feature_name, context, config, openai_client, anthropic_client,
          pc, prompt, generated_content, test_files, error, calls, log, arg, out>>

NoArg == [k \in {} |-> ""]

NoContent == [is_none |-> FALSE, text |-> <<>>]

FallingBack == "Falling back to mock content generation"
NotAvailable(llm_provider) ==
    "LLM provider " \o llm_provider \o " not available, generating mock content"

\* an except branch that hands the parser a report of the failure
ContentErrorReport(name, ctx, cfg) ==
    << FENCE \o "text:error.log", "generation failed for " \o name, FENCE >>

\* the except branches of generate_tests: the content after a failed provider call
ContentAfterProviderError(name, ctx, cfg) == _generate_mock_content(name, ctx, cfg)

\* the else branch of generate_tests: the content when no provider is called
ContentWithoutProvider(name, ctx, cfg) == _generate_mock_content(name, ctx, cfg)

\* lines 366-369 on a text: parse it and return the files
ParseAndReturn(text) ==
    /\ generated_content' = [is_none |-> FALSE, text |-> text]
    /\ test_files' = _parse_generated_content(text, feature_name, context)
    /\ pc' = "returned"
    /\ error' = ""

\* lines 366-369 on None: content.split raises, and generate_tests with it
ParseNone ==
    /\ generated_content' = [is_none |-> TRUE, text |-> <<>>]
    /\ test_files' = EmptyFiles
    /\ pc' = "raised"
    /\ error' = "AttributeError"

\* generate_tests when the selected provider has no client: runs to its return
GenerateTestsWithoutProvider ==
    /\ pc = "idle"
    /\ ~(LlmProvider(config) = "openai" /\ openai_client)
    /\ ~(LlmProvider(config) = "anthropic" /\ anthropic_client)
    /\ prompt' = _build_generation_prompt(feature_name, context, config)
    /\ log' = Append(log, NotAvailable(LlmProvider(config)))
    /\ ParseAndReturn(ContentWithoutProvider(feature_name, context, config))
    /\ UNCHANGED <<inputs, calls, out>>

\* generate_tests up to the await of the OpenAI completion call
CallOpenAI ==
    /\ pc = "idle"
    /\ LlmProvider(config) = "openai" /\ openai_client
    /\ prompt' = _build_generation_prompt(feature_name, context, config)
    /\ calls' = [calls EXCEPT !.openai = @ + 1]
    /\ pc' = "awaiting"
    /\ UNCHANGED <<inputs, generated_content, test_files, error, log, out>>

\* the completion arrives with message.content a string
OpenAIReturnsText(text) ==
    /\ pc = "awaiting"
    /\ ParseAndReturn(text)
    /\ UNCHANGED <<inputs, prompt, calls, log, out>>

\* the completion arrives with message.content None
OpenAIReturnsNone ==
    /\ pc = "awaiting"
    /\ ParseNone
    /\ UNCHANGED <<inputs, prompt, calls, log, out>>

\* the call raises, or the completion has no choice: _generate_with_openai raises
OpenAIRaises ==
    /\ pc = "awaiting"
    /\ log' = log \o << "OpenAI generation failed", FallingBack >>
    /\ ParseAndReturn(ContentAfterProviderError(feature_name, context, config))
    /\ UNCHANGED <<inputs, prompt, calls, out>>

\* generate_tests with the Anthropic client, whose call is synchronous: the reply
\* holds a text block
GenerateTestsAnthropicText(text) ==
    /\ pc = "idle"
    /\ ~(LlmProvider(config) = "openai" /\ openai_client)
    /\ LlmProvider(config) = "anthropic" /\ anthropic_client
    /\ prompt' = _build_generation_prompt(feature_name, context, config)
    /\ calls' = [calls EXCEPT !.anthropic = @ + 1]
    /\ ParseAndReturn(text)
    /\ UNCHANGED <<inputs, log, out>>

\* generate_tests with the Anthropic client: the call raises, or the reply holds no
\* text block
GenerateTestsAnthropicRaises ==
    /\ pc = "idle"
    /\ ~(LlmProvider(config) = "openai" /\ openai_client)
    /\ LlmProvider(config) = "anthropic" /\ anthropic_client
    /\ prompt' = _build_generation_prompt(feature_name, context, config)
    /\ calls' = [calls EXCEPT !.anthropic = @ + 1]
    /\ log' = log \o << "Anthropic generation failed", FallingBack >>
    /\ ParseAndReturn(ContentAfterProviderError(feature_name, context, config))
    /\ UNCHANGED <<inputs, out>>

(***************************************************************************)
(* Functions applied on their own: the normalization of a feature name     *)
(* (the expression of lines 374-375 and 784-786) and the feature file of   *)
(* the default skeleton.                                                   *)
(***************************************************************************)
MaxNormalizations == 2

\* clean_name of the feature name, then of what the previous application gave
NormalizeName ==
    /\ pc = "idle"
    /\ Len(out) < MaxNormalizations
    /\ out' = Append(out, CleanName(IF out = <<>> THEN feature_name ELSE out[Len(out)]))
    /\ UNCHANGED <<inputs, pc, prompt, generated_content, test_files, error, calls, log>>

\* _get_default_feature_file on the name as given
GetDefaultFeatureFile ==
    /\ pc = "idle"
    /\ out = <<>>
    /\ out' = << _get_default_feature_file(feature_name, <<>>, context) >>
    /\ UNCHANGED <<inputs, pc, prompt, generated_content, test_files, error, calls, log>>

\* the construction of a generator from the integrations and the environment
InitializeClients ==
    /\ pc = "idle"
    /\ out = <<>>
    /\ out' = << _initialize_clients_from_integrations(
                     arg.integrations, arg.environ, arg.libraries) >>
    /\ openai_client' = (out'[1].openai # NoClient)
    /\ anthropic_client' = (out'[1].anthropic # NoClient)
    /\ UNCHANGED <<feature_name, context, config, arg,
                   pc, prompt, generated_content, test_files, error, calls, log>>

\* _extract_acceptance_criteria on a description
ExtractAcceptanceCriteria ==
    /\ pc = "idle"
    /\ out = <<>>
    /\ out' = << _extract_acceptance_criteria(arg.description) >>
    /\ UNCHANGED <<inputs, pc, prompt, generated_content, test_files, error, calls, log>>

\* extract_jira_context up to its loop
StartJiraExtraction ==
    /\ pc = "idle"
    /\ out = <<>>
    /\ out' = << JiraStart(arg) >>
    /\ UNCHANGED <<inputs, pc, prompt, generated_content, test_files, error, calls, log>>

\* the fetch of the next issue key comes back: with an issue of Jira, or failed
FetchJiraIssue(issue_data) ==
    /\ pc = "idle"
    /\ out # <<>>
    /\ out[1].status = "running"
    /\ out[1].next <= Len(arg.issue_keys)
    /\ issue_data # NoIssue => issue_data.key = arg.issue_keys[out[1].next]
    /\ out' = << JiraLoopStep(out[1], arg.issue_keys[out[1].next], issue_data) >>
    /\ UNCHANGED <<inputs, pc, prompt, generated_content, test_files, error, calls, log>>

\* return context, after the last key
ReturnJiraContext ==
    /\ pc = "idle"
    /\ out # <<>>
    /\ out[1].status = "running"
    /\ out[1].next > Len(arg.issue_keys)
    /\ out' = << [out[1] EXCEPT !.status = "returned"] >>
    /\ UNCHANGED <<inputs, pc, prompt, generated_content, test_files, error, calls, log>>

\* extract_file_context on a file
ExtractFileContext ==
    /\ pc = "idle"
    /\ out = <<>>
    /\ out' = << extract_file_context(arg) >>
    /\ UNCHANGED <<inputs, pc, prompt, generated_content, test_files, error, calls, log>>

\* extract_url_context on a page
ExtractUrlContext ==
    /\ pc = "idle"
    /\ out = <<>>
    /\ out' = << extract_url_context(arg) >>
    /\ UNCHANGED <<inputs, pc, prompt, generated_content, test_files, error, calls, log>>

\* _build_generation_prompt on a context
BuildGenerationPrompt ==
    /\ pc = "idle"
    /\ out = <<>>
    /\ out' = << _build_generation_prompt(feature_name, arg, config) >>
    /\ UNCHANGED <<inputs, pc, prompt, generated_content, test_files, error, calls, log>>

(***************************************************************************)
(* The lifecycle of a TestGeneration (main.py): create_test_generation     *)
(* stores the record as pending and starts generate_tests_async, which     *)
(* marks it processing, awaits generate_tests, and records the outcome.    *)
(* out holds the record as the database shows it, and with it              *)
(*   task        "running" until generate_tests_async has ended            *)
(*   db_failed   whether a database statement of the task raised           *)
(*   progress    the events handed to send_progress                        *)
(*   connection  "none": no websocket registered for the generation,       *)
(*               "open": one registered, "broken": one registered whose    *)
(*               send_text raises                                          *)
(*   delivered   the events a websocket was sent                           *)
(***************************************************************************)
NewGeneration ==
    [status |-> "pending", generated_files |-> EmptyFiles, error_message |-> "",
     progress |-> <<>>, task |-> "running", db_failed |-> FALSE,
     connection |-> "none", delivered |-> <<>>]

\* the events generate_tests_async hands to send_progress
ProcessingEvent(stage, progress) ==
    [status |-> "processing", stage |-> stage, progress |-> progress]

\* the events before the call of generate_tests
StartEvents ==
    << ProcessingEvent("initializing", 10), ProcessingEvent("extracting_context", 30),
       ProcessingEvent("generating_tests", 60) >>

\* the events after generate_tests returned
CompletionEvents ==
    << ProcessingEvent("saving_files", 90),
       [status |-> "completed", stage |-> "completed", progress |-> 100] >>

\* the event of the except branch
FailedEvent(e) == [status |-> "failed", error |-> e]

\* ConnectionManager.send_progress: nothing without a registered websocket; a
\* send_text that raises is caught and the websocket is removed
SendProgress(generation, data) ==
    [generation EXCEPT
        !.progress = Append(@, data),
        !.delivered = IF generation.connection = "open" THEN Append(@, data) ELSE @,
        !.connection = IF generation.connection = "broken" THEN "none" ELSE @]

RECURSIVE SendAll(_, _, _)
\* send_progress for the events from the i-th on, one after the other
SendAll(generation, events, i) ==
    IF i > Len(events) THEN generation
    ELSE SendAll(SendProgress(generation, events[i]), events, i + 1)

\* a send_progress that lets the error of a broken websocket out to its caller
SendProgressRaisesWhenBroken(generation) == generation.connection = "broken"

\* whether send_progress raises into generate_tests_async: never, its bare except
\* catches whatever send_text and json.dumps raise
SendProgressRaises(generation) == FALSE

\* an except branch that is also reached from the send after the update to completed
CanReachExceptAfterCompletion(generation) ==
    generation.status \in {"pending", "processing", "completed"}

\* the statements of the try block that can raise into the except branch lie
\* before the commit of completed; after it only send_progress is left
CanReachExcept(generation) ==
    generation.task = "running" /\ generation.status \in {"pending", "processing"}

\* the except branch: the update to failed, and the failed event
MarkFailed(generation, e) ==
    [SendProgress(generation, FailedEvent(e)) EXCEPT
        !.status = "failed", !.error_message = e, !.task = "ended"]

\* a handler that records completion whether or not generate_tests returned
RecordOutcomeAlways(generation, has_returned, files, e) ==
    [SendAll(generation, CompletionEvents, 1) EXCEPT
        !.status = "completed", !.generated_files = files, !.task = "ended"]

\* generate_tests_async after the await of generate_tests: the update to
\* completed with the files, or the except branch
RecordOutcome(generation, has_returned, files, e) ==
    IF ~has_returned THEN MarkFailed(generation, e)
    ELSE IF SendProgressRaises(generation) THEN MarkFailed(generation, "send failed")
    ELSE [SendAll(generation, CompletionEvents, 1) EXCEPT
             !.status = "completed", !.generated_files = files, !.task = "ended"]

\* create_test_generation
CreateTestGeneration ==
    /\ out = <<>>
    /\ out' = << NewGeneration >>
    /\ UNCHANGED <<inputs, pc, prompt, generated_content, test_files, error, calls, log>>

\* websocket_endpoint: a client connects for the generation
ClientConnects ==
    /\ out # <<>>
    /\ out[1].connection = "none"
    /\ out' = << [out[1] EXCEPT !.connection = "open"] >>
    /\ UNCHANGED <<inputs, pc, prompt, generated_content, test_files, error, calls, log>>

\* the registered websocket goes away, unnoticed: its next send_text raises
ConnectionBreaks ==
    /\ out # <<>>
    /\ out[1].connection = "open"
    /\ out' = << [out[1] EXCEPT !.connection = "broken"] >>
    /\ UNCHANGED <<inputs, pc, prompt, generated_content, test_files, error, calls, log>>

\* websocket_endpoint on WebSocketDisconnect: manager.disconnect
ClientDisconnects ==
    /\ out # <<>>
    /\ out[1].connection \in {"open", "broken"}
    /\ out' = << [out[1] EXCEPT !.connection = "none"] >>
    /\ UNCHANGED <<inputs, pc, prompt, generated_content, test_files, error, calls, log>>

\* generate_tests_async up to the call of generate_tests
StartProcessing ==
    /\ out # <<>>
    /\ out[1].task = "running"
    /\ out[1].status = "pending"
    /\ out' = << IF SendProgressRaises(out[1])
                 THEN MarkFailed([out[1] EXCEPT !.status = "processing"], "send failed")
                 ELSE SendAll([out[1] EXCEPT !.status = "processing"], StartEvents, 1) >>
    /\ UNCHANGED <<inputs, pc, prompt, generated_content, test_files, error, calls, log>>

\* a database statement of the try block raises: the except branch
StatementRaises ==
    /\ out # <<>>
    /\ CanReachExcept(out[1])
    /\ out' = << MarkFailed([out[1] EXCEPT !.db_failed = TRUE], "OperationalError") >>
    /\ UNCHANGED <<inputs, pc, prompt, generated_content, test_files, error, calls, log>>

\* a database statement of the try block raises and the update of the except
\* branch raises too: the task ends with the exception, the record as it was
HandlerRaises ==
    /\ out # <<>>
    /\ out[1].task = "running"
    /\ out[1].status \in {"pending", "processing"}
    /\ out' = << [out[1] EXCEPT !.db_failed = TRUE, !.task = "ended"] >>
    /\ UNCHANGED <<inputs, pc, prompt, generated_content, test_files, error, calls, log>>

\* generate_tests returned or raised: the record of the outcome
FinishGeneration ==
    /\ out # <<>>
    /\ out[1].task = "running"
    /\ out[1].status = "processing"
    /\ pc \in {"returned", "raised"}
    /\ out' = << RecordOutcome(out[1], pc = "returned", test_files, error) >>
    /\ UNCHANGED <<inputs, pc, prompt, generated_content, test_files, error, calls, log>>

(***************************************************************************)
(* Two generation requests on one event loop.  arg is the pair of          *)
(* requests, out the pair of tasks create_test_generation started; a task  *)
(* holds what generate_tests_async and generate_tests keep in locals and   *)
(* in the generator object the task constructed:                           *)
(*   pc   "created", "constructed" (suspended in send_progress),           *)
(*        "awaiting_openai" (suspended in the awaited OpenAI call),        *)
(*        "blocked_anthropic" (inside the synchronous Anthropic call, the  *)
(*        event loop's thread with it), "returned" or "raised"             *)
(***************************************************************************)
NoGenerator == [openai |-> NoClient, anthropic |-> NoClient]

NoReply == [kind |-> "no call", text |-> <<>>]

NewTask ==
    [pc |-> "created", generator |-> NoGenerator, prompt |-> "", reply |-> NoReply,
     test_files |-> EmptyFiles]

\* the context of the requests: a project without context sources
TaskContext == [project_context |-> "{}", context_sources |-> <<>>]

\* one generator object for all tasks: the one the first task constructed
FirstGenerator(tasks, t) == tasks[1].generator

\* the generator a task calls generate_tests on: the local of generate_tests_async
GeneratorOf(tasks, t) == tasks[t].generator

\* no task is inside a synchronous call: the event loop can run a task
LoopFree(tasks) == \A u \in 1..Len(tasks) : tasks[u].pc # "blocked_anthropic"

\* a task after its content went through _parse_generated_content, None raising
TaskParsed(task, request, reply, is_none, text) ==
    [task EXCEPT !.reply = reply,
                 !.pc = IF is_none THEN "raised" ELSE "returned",
                 !.test_files =
                     IF is_none THEN EmptyFiles
                     ELSE _parse_generated_content(text, request.feature_name, TaskContext)]

\* the mock content of a request
TaskMock(request) == _generate_mock_content(request.feature_name, TaskContext, request.config)

\* create_test_generation, twice: asyncio.create_task(generate_tests_async(...))
CreateTasks ==
    /\ pc = "idle"
    /\ out = <<>>
    /\ out' = << NewTask, NewTask >>
    /\ UNCHANGED <<inputs, pc, prompt, generated_content, test_files, error, calls, log>>

\* generate_tests_async up to the send_progress after the generator is constructed
ConstructGenerator(t) ==
    /\ out # <<>>
    /\ LoopFree(out)
    /\ out[t].pc = "created"
    /\ out' = [out EXCEPT ![t].pc = "constructed",
                          ![t].generator =
                              _initialize_clients_from_integrations(
                                  arg[t].integrations, arg[t].environ, TRUE)]
    /\ UNCHANGED <<inputs, pc, prompt, generated_content, test_files, error, calls, log>>

\* generate_tests up to its provider call, or to its return when no provider is called
CallGenerateTests(t) ==
    LET generator == GeneratorOf(out, t)
        llm_provider == LlmProvider(arg[t].config)
        built == [out[t] EXCEPT
                     !.prompt = _build_generation_prompt(arg[t].feature_name, TaskContext,
                                                         arg[t].config)]
    IN /\ out # <<>>
       /\ LoopFree(out)
       /\ out[t].pc = "constructed"
       /\ out' = [out EXCEPT ![t] =
                     IF llm_provider = "openai" /\ generator.openai # NoClient
                     THEN [built EXCEPT !.pc = "awaiting_openai"]
                     ELSE IF llm_provider = "anthropic" /\ generator.anthropic # NoClient
                     THEN [built EXCEPT !.pc = "blocked_anthropic"]
                     ELSE TaskParsed(built, arg[t], NoReply, FALSE, TaskMock(arg[t]))]
       /\ UNCHANGED <<inputs, pc, prompt, generated_content, test_files, error, calls, log>>

\* the rest of generate_tests on the outcome of the provider call
TaskAfterReply(task, request, reply) ==
    IF reply.kind = "raise" THEN TaskParsed(task, request, reply, FALSE, TaskMock(request))
    ELSE TaskParsed(task, request, reply, reply.kind = "none", reply.text)

\* the awaited OpenAI call completes and the task is resumed
OpenAIReplies(t, reply) ==
    /\ out # <<>>
    /\ LoopFree(out)
    /\ out[t].pc = "awaiting_openai"
    /\ out' = [out EXCEPT ![t] = TaskAfterReply(out[t], arg[t], reply)]
    /\ UNCHANGED <<inputs, pc, prompt, generated_content, test_files, error, calls, log>>

\* the synchronous Anthropic call returns to the task that made it
AnthropicReplies(t, reply) ==
    /\ out # <<>>
    /\ out[t].pc = "blocked_anthropic"
    /\ reply.kind # "none"
    /\ out' = [out EXCEPT ![t] = TaskAfterReply(out[t], arg[t], reply)]
    /\ UNCHANGED <<inputs, pc, prompt, generated_content, test_files, error, calls, log>>

\* outcomes of a provider call: a text with a file block, a text without, a
\* completion without content, an error
TaskReplies ==
    {[kind |-> "text", text |-> << FENCE \o "java:src/A.java", "class A {}", FENCE >>],
     [kind |-> "text", text |-> << "I cannot generate files." >>],
     [kind |-> "none", text |-> <<>>],
     [kind |-> "raise", text |-> <<>>]}

\* a step of task t
TaskStep(t) ==
    \/ ConstructGenerator(t)
    \/ CallGenerateTests(t)
    \/ \E reply \in TaskReplies : OpenAIReplies(t, reply)
    \/ \E reply \in TaskReplies : AnthropicReplies(t, reply)

(***************************************************************************)
(* create_context_source (main.py).  out is the project's list of stored   *)
(* ContextSource records, log the responses of the calls so far.  A        *)
(* request carries its source_type and source_config and, with them, what  *)
(* the outside world answers: the file, the page, the issues fetched.      *)
(***************************************************************************)
RECURSIVE JiraRun(_, _, _)
\* the loop of extract_jira_context over issue_keys, given what each fetch returns
JiraRun(st, jira_config, fetched) ==
    IF st.status # "running" \/ st.next > Len(jira_config.issue_keys) THEN st
    ELSE JiraRun(JiraLoopStep(st, jira_config.issue_keys[st.next], fetched[st.next]),
                 jira_config, fetched)

\* the try block of create_context_source: the extractor of the source type
ExtractContext(source_data) ==
    LET source_config == source_data.source_config
    IN IF source_data.source_type = "jira"
       THEN LET st == JiraRun(JiraStart(source_config), source_config, source_config.fetched)
            IN [raised |-> st.status = "raised", extracted |-> st.context]
       ELSE IF source_data.source_type = "url"
       THEN [raised |-> extract_url_context(source_config).raised,
             extracted |-> extract_url_context(source_config)]
       ELSE IF source_data.source_type = "file"
       THEN [raised |-> extract_file_context(source_config).raised,
             extracted |-> extract_file_context(source_config)]
       ELSE [raised |-> FALSE, extracted |-> [k \in {} |-> ""]]

\* a handler that adds the record before it extracts
StoreBeforeExtraction(sources, source_data, result) ==
    Append(sources, [source_type |-> source_data.source_type,
                     source_config |-> source_data.source_config,
                     extracted_context |-> result.extracted])

\* the project's sources after the call: db.add and commit come after the try
\* block, and an extractor that raised ended the call before them
StoreAfterExtraction(sources, source_data, result) ==
    IF result.raised THEN sources
    ELSE Append(sources, [source_type |-> source_data.source_type,
                          source_config |-> source_data.source_config,
                          extracted_context |-> result.extracted])

\* the response of the call
SourceResponse(source_data, result) ==
    [request |-> source_data, status_code |-> IF result.raised THEN 400 ELSE 200,
     detail |-> IF result.raised THEN "Context extraction failed" ELSE ""]

MaxSourceCalls == 2

\* create_context_source
CreateContextSource(source_data) ==
    /\ pc = "idle"
    /\ Len(log) < MaxSourceCalls
    /\ out' = StoreAfterExtraction(out, source_data, ExtractContext(source_data))
    /\ log' = Append(log, SourceResponse(source_data, ExtractContext(source_data)))
    /\ UNCHANGED <<inputs, pc, prompt, generated_content, test_files, error, calls>>

(***************************************************************************)
(* ConnectionManager and websocket_endpoint (main.py), for one             *)
(* generation_id.  out holds the manager and what the clients see:         *)
(*   active_connections  the websocket registered under the id, or "none"  *)
(*   open        the websockets whose endpoint is in its receive loop      *)
(*   last        the websocket that connected last                         *)
(*   sent_since  the progress events sent since last connected             *)
(*   got_since   those of them that last received                          *)
(***************************************************************************)
NewManager ==
    [active_connections |-> "none", open |-> {}, last |-> "none",
     sent_since |-> 0, got_since |-> 0]

\* websocket_endpoint on WebSocketDisconnect of a websocket: manager.disconnect
\* deletes the entry of the generation_id, whichever websocket it holds
Disconnect(manager, websocket) ==
    [manager EXCEPT !.active_connections = "none", !.open = @ \ {websocket}]

MaxEvents == 2

\* manager = ConnectionManager()
CreateManager ==
    /\ pc = "idle"
    /\ out = <<>>
    /\ out' = << NewManager >>
    /\ UNCHANGED <<inputs, pc, prompt, generated_content, test_files, error, calls, log>>

\* websocket_endpoint: manager.connect(websocket, generation_id)
Connect(websocket) ==
    /\ out # <<>>
    /\ "active_connections" \in DOMAIN out[1]
    /\ websocket \notin out[1].open
    /\ out' = << [out[1] EXCEPT !.active_connections = websocket,
                                !.open = @ \cup {websocket},
                                !.last = websocket,
                                !.sent_since = 0, !.got_since = 0] >>
    /\ UNCHANGED <<inputs, pc, prompt, generated_content, test_files, error, calls, log>>

\* a client closes its websocket: the except branch of its websocket_endpoint
ClientCloses(websocket) ==
    /\ out # <<>>
    /\ "active_connections" \in DOMAIN out[1]
    /\ websocket \in out[1].open
    /\ out' = << Disconnect(out[1], websocket) >>
    /\ UNCHANGED <<inputs, pc, prompt, generated_content, test_files, error, calls, log>>

\* manager.send_progress(generation_id, data) with the websockets all sound
SendEvent ==
    /\ out # <<>>
    /\ "active_connections" \in DOMAIN out[1]
    /\ out[1].sent_since < MaxEvents
    /\ out' = << [out[1] EXCEPT
                     !.sent_since = @ + 1,
                     !.got_since = IF out[1].active_connections = out[1].last
                                      /\ out[1].last # "none"
                                   THEN @ + 1 ELSE @] >>
    /\ UNCHANGED <<inputs, pc, prompt, generated_content, test_files, error, calls, log>>

(***************************************************************************)
(* The inputs the specifications draw from.                                *)
(***************************************************************************)
MaxNameLen == 1
MaxNormLen == 3
MaxSources == 1
MaxWords == 2
MaxBlocks == 2
MaxBodyLen == 2

NameAlphabet == {"A", " ", "!", NL}
NormAlphabet == {"a", "B", "1", " ", "-", "_", "!", NL, DOTI}

RECURSIVE Strings(_, _)
\* the strings over alphabet of length at most n
Strings(alphabet, n) ==
    IF n = 0 THEN {""}
    ELSE Strings(alphabet, n - 1)
         \cup {s \o c : s \in Strings(alphabet, n - 1), c \in alphabet}

InjectedName == "x" \o NL \o FENCE \o "a:b"

NamedNames ==
    {"User Login Flow", "Google Search for laptops", "Sign Up Flow", "signup",
     "Register-Now", "Checkout", "search login", "Se!arch", InjectedName}

FeatureNames == NamedNames \cup Strings(NameAlphabet, MaxNameLen)

UrlSource(url, title) == [type |-> "url", extracted |-> [url |-> url, title |-> title]]
OtherSource(type) == [type |-> type, extracted |-> [url |-> "", title |-> ""]]

GoogleSource == UrlSource("https://www.Google.com", "Google")
ShopSource == UrlSource("https://shop.example.org", "Shop")

Sources == {GoogleSource, ShopSource, OtherSource("file")}

RECURSIVE Seqs(_, _)
\* the sequences over S of length at most n
Seqs(S, n) ==
    IF n = 0 THEN {<<>>}
    ELSE Seqs(S, n - 1) \cup {Append(s, e) : s \in Seqs(S, n - 1), e \in S}

Contexts ==
    {[project_context |-> "{}", context_sources |-> ss] :
        ss \in Seqs(Sources, MaxSources)
               \cup {<<OtherSource("file"), GoogleSource>>, <<ShopSource, GoogleSource>>}}

\* the contexts of the function-level specifications: no url, one url, and a url
\* source behind another source
ScenarioContexts ==
    {[project_context |-> "{}", context_sources |-> ss] :
        ss \in {<<>>, <<GoogleSource>>, <<ShopSource>>,
                <<OtherSource("file"), GoogleSource>>, <<ShopSource, GoogleSource>>}}

Configs == {[llm_provider |-> "openai"], [llm_provider |-> "anthropic"],
            [llm_provider |-> "mock"], [k \in {} |-> ""]}

MaxIntegrations == 2

\* what json.loads makes of the stored credentials
Credentials ==
    {[ok |-> FALSE, api_key |-> "", base_url |-> ""],
     [ok |-> TRUE, api_key |-> "", base_url |-> ""],
     [ok |-> TRUE, api_key |-> "sk-1", base_url |-> ""],
     [ok |-> TRUE, api_key |-> "sk-2", base_url |-> "https://proxy.example.org/v1"],
     [ok |-> TRUE, api_key |-> "sk-1", base_url |-> BadBaseUrl]}

Integrations ==
    {[integration_type |-> t, credentials |-> c] :
        t \in {"openai", "anthropic", "jira"}, c \in Credentials}

Environs ==
    {[OPENAI_API_KEY |-> o, ANTHROPIC_API_KEY |-> a] :
        o \in {"", "sk-env-openai"}, a \in {"", "sk-env-anthropic"}}

ClientArgs ==
    {[integrations |-> is, environ |-> e, libraries |-> l] :
        is \in Seqs(Integrations, MaxIntegrations), e \in Environs, l \in BOOLEAN}

MaxDescriptionLines == 4

\* lines of a Jira description
DescriptionLines ==
    {"Acceptance Criteria", "h2. Acceptance Criteria:", "- a", "  * b", "1. c",
     BULLET \o " Acceptance Criteria d", "", "Next Section"}

\* the example of the specification
ExampleDescription ==
    Join(<< "Acceptance Criteria", "- a", "- b", "", "Next Section", "c" >>, NL)

Descriptions ==
    {ExampleDescription}
    \cup {Join(lines, NL) : lines \in Seqs(DescriptionLines, MaxDescriptionLines) \ {<<>>}}

MaxIssueKeys == 3

IssueKeys == {"QA-1", "QA-2"}

\* what a fetch of key brings back
JiraIssues(key) ==
    {NoIssue}
    \cup {[key |-> key, issuetype |-> t, description |-> d, has_description |-> TRUE] :
            t \in {"Epic", "Story", "Task"},
            d \in {"", "Acceptance Criteria" \o NL \o "- a" \o NL \o "Next"}}
    \cup {[key |-> key, issuetype |-> "Story", description |-> "", has_description |-> FALSE]}

JiraConfigs ==
    {[jira_url |-> "https://jira.example.org", username |-> "qa", api_token |-> t,
      issue_keys |-> ks] :
        t \in {"", "token"}, ks \in Seqs(IssueKeys, MaxIssueKeys)}

\* files: where they are, the type the request declares, whether they exist, their text
FileConfigs ==
    {[file_path |-> p, file_type |-> t, exists |-> e, text |-> x] :
        p \in {"", "/data/spec.yml", "/data/spec.yaml", "/data/spec.json", "/data/notes.txt"},
        t \in {"text", "yaml", "json"},
        e \in BOOLEAN,
        x \in {"", "a: 1", "{\"a\": 1}", "[]", "hello", "a: [", "plain notes"}}

MaxAnchors == 75

\* pages of n anchors: every anchor with an href, or every gap-th one without
\* (named anchors such as <a name="top">)
Pages ==
    {[url |-> u, fetched |-> f,
      anchors |-> [i \in 1..n |->
                      [at |-> i, has_href |-> (gap = 0 \/ i % gap # 0), text |-> " Link "]]] :
        u \in {"https://shop.example.org"}, f \in {TRUE},
        n \in 0..MaxAnchors, gap \in {0, 2, 3}}
    \cup {[url |-> u, fetched |-> f, anchors |-> <<>>] :
            u \in {"", "https://shop.example.org"}, f \in BOOLEAN}

MaxPromptSources == 3

\* context sources as the extractors record them, two of each type, and one of a
\* type the prompt has no section for
PromptSources ==
    {[type |-> "jira",
      extracted |-> [source |-> "jira",
                     issues |-> << [key |-> "QA-1", summary |-> "Login", description |-> "",
                                    issuetype |-> "Story", status |-> "Open"] >>,
                     acceptance_criteria |-> << "- a" >>]],
     [type |-> "jira",
      extracted |-> [source |-> "jira",
                     issues |-> << [key |-> "QA-2", summary |-> "Search", description |-> "",
                                    issuetype |-> "Epic", status |-> "Done"] >>,
                     acceptance_criteria |-> <<>>]],
     [type |-> "url",
      extracted |-> [source |-> "url", url |-> "https://shop.example.org", title |-> "Shop",
                     forms |-> << [action |-> "/login", method |-> "POST",
                                   inputs |-> << [type |-> "password", name |-> "pw",
                                                  required |-> TRUE] >>] >>,
                     navigation |-> << [text |-> "Home", href |-> "/"] >>,
                     buttons |-> << [text |-> "Go", type |-> "submit"] >>,
                     inputs |-> <<>>]],
     GoogleSource,
     [type |-> "file",
      extracted |-> [source |-> "file", file_type |-> "yaml", file_name |-> "spec.yml",
                     content |-> "", structured_data |-> "{'a': 1}"]],
     [type |-> "file",
      extracted |-> [source |-> "file", file_type |-> "text", file_name |-> "notes.txt",
                     content |-> "plain notes", structured_data |-> "{}"]],
     [type |-> "api", extracted |-> [k \in {} |-> ""]]}

RECURSIVE DistinctSeqs(_, _)
\* the sequences of at most n distinct elements of S
DistinctSeqs(S, n) ==
    IF n = 0 THEN {<<>>}
    ELSE DistinctSeqs(S, n - 1)
         \cup {Append(s, e) : s \in {t \in DistinctSeqs(S, n - 1) : Len(t) = n - 1},
                              e \in S}

PromptContexts ==
    {[project_context |-> "{}", context_sources |-> ss] :
        ss \in {s \in DistinctSeqs(PromptSources, MaxPromptSources) :
                    \A i, j \in 1..Len(s) : i # j => s[i] # s[j]}}

\* what the integrations and the environment of a request's user hold
TaskIntegrations ==
    {<<>>,
     << [integration_type |-> "openai",
         credentials |-> [ok |-> TRUE, api_key |-> "sk-1", base_url |-> ""]] >>,
     << [integration_type |-> "anthropic",
         credentials |-> [ok |-> TRUE, api_key |-> "sk-2", base_url |-> ""]] >>}

\* generation requests
Requests ==
    {[feature_name |-> n, config |-> [llm_provider |-> p], integrations |-> is,
      environ |-> [OPENAI_API_KEY |-> "", ANTHROPIC_API_KEY |-> ""]] :
        n \in {"Login", "Search"}, p \in {"openai", "anthropic"}, is \in TaskIntegrations}

\* requests to add a context source
SourceRequests ==
    {[source_type |-> "file", source_config |-> c] :
        c \in {[file_path |-> p, file_type |-> "text", exists |-> e, text |-> "plain notes"] :
                 p \in {"", "/data/notes.txt"}, e \in BOOLEAN}}
    \cup {[source_type |-> "url", source_config |-> c] :
            c \in {[url |-> u, fetched |-> f,
                    anchors |-> << [at |-> 1, has_href |-> TRUE, text |-> "Home"] >>] :
                     u \in {"", "https://shop.example.org"}, f \in BOOLEAN}}
    \cup {[source_type |-> "jira", source_config |-> c] :
            c \in {[jira_url |-> "https://jira.example.org", username |-> "qa",
                    api_token |-> t, issue_keys |-> ks,
                    fetched |-> [k \in 1..Len(ks) |->
                                    [key |-> ks[k], issuetype |-> "Story",
                                     description |-> "", has_description |-> TRUE]]] :
                     t \in {"", "token"}, ks \in {<<>>, << "QA-1" >>}}}
    \cup {[source_type |-> "api", source_config |-> [k \in {} |-> ""]]}

Block(marker, body) == <<marker>> \o body \o <<FENCE>>

\* replies of a provider: prose, blocks with and without a path marker
ReplyTexts ==
    {<<"">>,
     <<"I cannot generate files.">>,
     <<FENCE, "mvn test", FENCE>>,
     Block(FENCE \o "java:src/A.java", <<"class A {}", "">>),
     Block(FENCE \o "java:src/A.java", <<>>),
     Block(FENCE \o "md:README.md", <<"# Run", FENCE \o "bash", "mvn test", FENCE, "done">>),
     <<"Here:">> \o Block(FENCE \o "xml: pom.xml ", <<"<project/>">>)
         \o Block(FENCE \o "java:src/A.java", <<"class A {}">>),
     <<FENCE \o "java:src/A.java", "class A {}">>}

\* the words the scenario chain tests for, and one it does not
Keywords ==
    {"search", "login", "signin", "auth", "register", "signup", "sign up",
     "checkout", "cart", "purchase", "dashboard"}

RECURSIVE Phrases(_)
\* the names made of at most n keywords
Phrases(n) ==
    IF n = 1 THEN Keywords
    ELSE Phrases(n - 1) \cup {p \o " " \o k : p \in Phrases(n - 1), k \in Keywords}

ScenarioNames ==
    Phrases(MaxWords)
    \cup {"User Login Flow", "Google Search for laptops", "Sign Up Flow", "SEARCH"}

\* file blocks: the marker line as the reply writes it, the path it names, the body
Markers ==
    {[line |-> FENCE \o "java:src/A.java", path |-> "src/A.java"],
     [line |-> FENCE \o "xml: pom.xml ", path |-> "pom.xml"]}

BodyLines == {"x", "", FENCE \o "bash"}

Blocks == {[marker |-> m, body |-> b] : m \in Markers, b \in Seqs(BodyLines, MaxBodyLen)}

\* the lists of one to MaxBlocks blocks with distinct paths
BlockLists ==
    {bs \in Seqs(Blocks, MaxBlocks) :
        /\ bs # <<>>
        /\ \A i, j \in 1..Len(bs) : i # j => bs[i].marker.path # bs[j].marker.path}

RECURSIVE RenderBlocks(_, _)
\* the reply made of the blocks bs[i..], each closed by a bare fence line
RenderBlocks(bs, i) ==
    IF i > Len(bs) THEN <<>>
    ELSE Block(bs[i].marker.line, bs[i].body) \o RenderBlocks(bs, i + 1)

BlockTexts == {RenderBlocks(bs, 1) : bs \in BlockLists}

InitRest ==
    /\ pc = "idle"
    /\ prompt = ""
    /\ generated_content = NoContent
    /\ test_files = EmptyFiles
    /\ error = ""
    /\ calls = [openai |-> 0, anthropic |-> 0]
    /\ log = <<>>
    /\ out = <<>>

\* the rest of the initial state of a specification that applies no function to arg
InitGenerate == InitRest /\ arg = NoArg

Init ==
    /\ feature_name \in FeatureNames
    /\ context \in Contexts
    /\ config \in Configs
    /\ openai_client \in BOOLEAN
    /\ anthropic_client \in BOOLEAN
    /\ InitGenerate

Next ==
    \/ GenerateTestsWithoutProvider
    \/ CallOpenAI
    \/ \E text \in ReplyTexts : OpenAIReturnsText(text)
    \/ OpenAIReturnsNone
    \/ OpenAIRaises
    \/ \E text \in ReplyTexts : GenerateTestsAnthropicText(text)
    \/ GenerateTestsAnthropicRaises

Spec == Init /\ [][Next]_vars

\* generate_tests with the OpenAI client, the reply made of file blocks
InitParser ==
    /\ feature_name \in {"Login", "Se!arch"}
    /\ context \in {[project_context |-> "{}", context_sources |-> <<>>]}
    /\ config \in {[llm_provider |-> "openai"]}
    /\ openai_client = TRUE
    /\ anthropic_client = FALSE
    /\ InitGenerate

NextParser ==
    \/ CallOpenAI
    \/ \E text \in BlockTexts : OpenAIReturnsText(text)

SpecParser == InitParser /\ [][NextParser]_vars

\* the normalization applied to a name, and again to its result
InitNormalize ==
    /\ feature_name \in Strings(NormAlphabet, MaxNormLen)
    /\ context \in {[project_context |-> "{}", context_sources |-> <<>>]}
    /\ config \in {[llm_provider |-> "mock"]}
    /\ openai_client = FALSE
    /\ anthropic_client = FALSE
    /\ InitGenerate

NextNormalize == NormalizeName

SpecNormalize == InitNormalize /\ [][NextNormalize]_vars

\* the feature file of the skeleton for names made of the chain's keywords
InitScenarios ==
    /\ feature_name \in ScenarioNames
    /\ context \in ScenarioContexts
    /\ config \in {[llm_provider |-> "mock"]}
    /\ openai_client = FALSE
    /\ anthropic_client = FALSE
    /\ InitGenerate

NextScenarios == GetDefaultFeatureFile

SpecScenarios == InitScenarios /\ [][NextScenarios]_vars

\* a generator under construction
InitClients ==
    /\ feature_name \in {"Login"}
    /\ context \in {[project_context |-> "{}", context_sources |-> <<>>]}
    /\ config \in {[llm_provider |-> "openai"]}
    /\ openai_client = FALSE
    /\ anthropic_client = FALSE
    /\ arg \in ClientArgs
    /\ InitRest

NextClients == InitializeClients

SpecClients == InitClients /\ [][NextClients]_vars
\* the acceptance criteria of a description
InitCriteria ==
    /\ feature_name \in {"Login"}
    /\ context \in {[project_context |-> "{}", context_sources |-> <<>>]}
    /\ config \in {[llm_provider |-> "openai"]}
    /\ openai_client = FALSE
    /\ anthropic_client = FALSE
    /\ arg \in {[description |-> d] : d \in Descriptions}
    /\ InitRest

NextCriteria == ExtractAcceptanceCriteria

SpecCriteria == InitCriteria /\ [][NextCriteria]_vars

\* one extraction of a Jira context
InitJira ==
    /\ feature_name \in {"Login"}
    /\ context \in {[project_context |-> "{}", context_sources |-> <<>>]}
    /\ config \in {[llm_provider |-> "openai"]}
    /\ openai_client = FALSE
    /\ anthropic_client = FALSE
    /\ arg \in JiraConfigs
    /\ InitRest

NextJira ==
    \/ StartJiraExtraction
    \/ \E key \in IssueKeys : \E issue_data \in JiraIssues(key) : FetchJiraIssue(issue_data)
    \/ ReturnJiraContext

SpecJira == InitJira /\ [][NextJira]_vars

\* one extraction of a file context
InitFile ==
    /\ feature_name \in {"Login"}
    /\ context \in {[project_context |-> "{}", context_sources |-> <<>>]}
    /\ config \in {[llm_provider |-> "openai"]}
    /\ openai_client = FALSE
    /\ anthropic_client = FALSE
    /\ arg \in FileConfigs
    /\ InitRest

NextFile == ExtractFileContext

SpecFile == InitFile /\ [][NextFile]_vars

\* one extraction of a url context
InitUrl ==
    /\ feature_name \in {"Login"}
    /\ context \in {[project_context |-> "{}", context_sources |-> <<>>]}
    /\ config \in {[llm_provider |-> "openai"]}
    /\ openai_client = FALSE
    /\ anthropic_client = FALSE
    /\ arg \in Pages
    /\ InitRest

NextUrl == ExtractUrlContext

SpecUrl == InitUrl /\ [][NextUrl]_vars

\* one prompt built from a context
InitPrompt ==
    /\ feature_name \in {"Login"}
    /\ context \in {[project_context |-> "{}", context_sources |-> <<>>]}
    /\ config \in {[llm_provider |-> "openai"]}
    /\ openai_client = FALSE
    /\ anthropic_client = FALSE
    /\ arg \in PromptContexts
    /\ InitRest

NextPrompt == BuildGenerationPrompt

SpecPrompt == InitPrompt /\ [][NextPrompt]_vars

\* the lifecycle of one generation request
InitLifecycle ==
    /\ feature_name \in {"Login", InjectedName}
    /\ context \in ScenarioContexts
    /\ config \in Configs
    /\ openai_client \in BOOLEAN
    /\ anthropic_client \in BOOLEAN
    /\ InitGenerate

\* the steps of generate_tests, taken while the request is processing
GenerateTestsStep ==
    /\ out # <<>>
    /\ out[1].task = "running"
    /\ out[1].status = "processing"
    /\ Next

NextLifecycle ==
    \/ CreateTestGeneration
    \/ ClientConnects
    \/ ConnectionBreaks
    \/ ClientDisconnects
    \/ StartProcessing
    \/ GenerateTestsStep
    \/ StatementRaises
    \/ HandlerRaises
    \/ FinishGeneration

SpecLifecycle == InitLifecycle /\ [][NextLifecycle]_vars

\* a step of generate_tests, the reply of its outbound call included: the steps
\* of GenerateTestsStep are the steps of a processing task that move pc
GenerateTestsAdvances ==
    /\ out # <<>>
    /\ out[1].task = "running"
    /\ out[1].status = "processing"
    /\ pc \in {"idle", "awaiting"}
    /\ pc' \in {"awaiting", "returned", "raised"}

\* the lifecycle under fair scheduling: a task that can take a step takes one, and
\* an outbound call that was made returns or raises
SpecLifecycleFair ==
    /\ InitLifecycle
    /\ [][NextLifecycle]_vars
    /\ WF_vars(StartProcessing)
    /\ WF_pc(GenerateTestsAdvances)
    /\ WF_vars(FinishGeneration)

\* two requests run concurrently
InitConcurrent ==
    /\ feature_name \in {"Login"}
    /\ context \in {[project_context |-> "{}", context_sources |-> <<>>]}
    /\ config \in {[llm_provider |-> "openai"]}
    /\ openai_client = FALSE
    /\ anthropic_client = FALSE
    /\ arg \in {<< r1, r2 >> : r1 \in Requests, r2 \in Requests}
    /\ InitRest

NextConcurrent ==
    \/ CreateTasks
    \/ \E t \in {1, 2} : TaskStep(t)

SpecConcurrent == InitConcurrent /\ [][NextConcurrent]_vars

\* calls of create_context_source on one project
InitSources ==
    /\ feature_name \in {"Login"}
    /\ context \in {[project_context |-> "{}", context_sources |-> <<>>]}
    /\ config \in {[llm_provider |-> "openai"]}
    /\ openai_client = FALSE
    /\ anthropic_client = FALSE
    /\ InitGenerate

NextSources == \E source_data \in SourceRequests : CreateContextSource(source_data)

SpecSources == InitSources /\ [][NextSources]_vars

\* the clients of one generation
WebSockets == {"A", "B", "C"}

\* connects, disconnects and progress events of one generation_id
InitManager ==
    /\ feature_name \in {"Login"}
    /\ context \in {[project_context |-> "{}", context_sources |-> <<>>]}
    /\ config \in {[llm_provider |-> "openai"]}
    /\ openai_client = FALSE
    /\ anthropic_client = FALSE
    /\ InitGenerate

NextManager ==
    \/ CreateManager
    \/ \E websocket \in WebSockets : Connect(websocket)
    \/ \E websocket \in WebSockets : ClientCloses(websocket)
    \/ SendEvent

SpecManager == InitManager /\ [][NextManager]_vars

(***************************************************************************)
(* Properties.                                                             *)
(***************************************************************************)
Has(s, words) == \E w \in words : Contains(s, w)

\* the run fell back after a provider call that raised
FellBack == \E i \in 1..Len(log) : log[i] = FallingBack

\* the run called no provider
NoProviderCalled == calls.openai = 0 /\ calls.anthropic = 0

\* the seven paths of the default skeleton for a normalized name
SkeletonKeys(clean_name) ==
    {"pom.xml",
     "src/test/java/TestRunner.java",
     "src/test/java/pages/BasePage.java",
     "src/test/java/stepdefinitions/" \o clean_name \o "_steps.java",
     "src/test/resources/features/" \o clean_name \o ".feature",
     "src/test/resources/config.properties",
     "README.md"}

\* C1: when the selected provider has a client and its call raises, generate_tests
\* returns, and the FileSet it returns is the one the same inputs give when no
\* provider client is configured (the parse of the content of the else branch).
ProviderErrorGivesFallbackResult ==
    (pc = "returned" /\ FellBack) =>
        /\ error = ""
        /\ test_files = _parse_generated_content(
                            ContentWithoutProvider(feature_name, context, config),
                            feature_name, context)

\* a run whose OpenAI call raised has returned the files of the fallback
ProviderErrorWitness ==
    /\ pc = "returned"
    /\ FellBack
    /\ calls.openai = 1
    /\ openai_client
    /\ feature_name = "User Login Flow"
    /\ DOMAIN test_files = SkeletonKeys("user_login_flow")

\* C2: generate_tests never raises and every FileSet it returns is non-empty,
\* whatever the provider does (raises, text with blocks, text without a block,
\* empty or absent text).
AlwaysReturnsFiles ==
    /\ pc # "raised"
    /\ pc = "returned" => DOMAIN test_files # {}

\* no line of the text is a fence line that carries a path marker
NoMarkerLine(text) ==
    \A i \in 1..Len(text) : ~(StartsWith(text[i], FENCE) /\ Contains(text[i], ":"))

\* C3: the parser never returns an empty mapping; for a text in which the scan
\* records no file (so for every text without a fence line carrying a marker) it
\* returns the default skeleton: the seven paths fixed by the normalized name.
ParserNeverEmpty ==
    pc = "returned" =>
        /\ DOMAIN test_files # {}
        /\ (NoMarkerLine(generated_content.text)
            \/ DOMAIN ScannedFiles(generated_content.text) = {}) =>
              /\ DOMAIN test_files = SkeletonKeys(CleanName(feature_name))
              /\ Cardinality(DOMAIN test_files) = 7
              /\ \A k \in DOMAIN test_files : test_files[k] # ""

\* a reply of prose alone was parsed into the seven files of the skeleton
ParserDefaultWitness ==
    /\ pc = "returned"
    /\ generated_content.text = << "I cannot generate files." >>
    /\ feature_name = "Se!arch"
    /\ DOMAIN test_files = SkeletonKeys("search")
    /\ Cardinality(DOMAIN test_files) = 7

\* the body has no line that starts with the fence
PlainBody(body) == \A i \in 1..Len(body) : ~StartsWith(body[i], FENCE)

\* the files a list of blocks stands for: each path with its body's lines joined
RoundTripFiles(bs) ==
    [p \in {bs[i].marker.path : i \in 1..Len(bs)} |->
        Join((CHOOSE b \in {bs[i] : i \in 1..Len(bs)} : b.marker.path = p).body, NL)]

\* C4: a reply made of N blocks with N distinct path markers, each closed by a
\* bare fence line, parses into exactly N entries keyed by the trimmed paths, each
\* holding its block's lines joined by newlines; also for a block with no lines.
ParserRoundTrip ==
    pc = "returned" =>
        \A bs \in BlockLists :
            (/\ generated_content.text = RenderBlocks(bs, 1)
             /\ \A i \in 1..Len(bs) : PlainBody(bs[i].body))
            => test_files = RoundTripFiles(bs)

\* C5: inside an open file a line that starts with the fence and has more text
\* after it does not close the file and is kept: the file's content is every
\* line up to the bare fence line.
NestedFenceKept ==
    pc = "returned" =>
        \A bs \in BlockLists :
            (/\ Len(bs) = 1
             /\ generated_content.text = RenderBlocks(bs, 1)
             /\ Len(bs[1].body) > 0
             /\ ~StartsWith(bs[1].body[1], FENCE)
             /\ ~PlainBody(bs[1].body))
            => /\ bs[1].marker.path \in DOMAIN test_files
               /\ test_files[bs[1].marker.path] = Join(bs[1].body, NL)

\* C6: with no usable provider client generate_tests returns, for every feature
\* name, a FileSet that holds pom.xml, a test runner, a base page class, a step
\* definition file, a feature file, config.properties and README.md.
FallbackTotal ==
    (pc = "returned" /\ NoProviderCalled) =>
        /\ error = ""
        /\ {"pom.xml", "README.md"} \subseteq DOMAIN test_files
        /\ \A ending \in {"TestRunner.java", "BasePage.java", "_steps.java",
                         ".feature", "config.properties"} :
              \E k \in DOMAIN test_files : EndsWith(k, ending)

\* C7: normalizing a normalized name gives it back.
NormalizeIdempotent == Len(out) >= 2 => out[2] = out[1]

\* the line that tells each group of scenarios from the others
GroupLine ==
    [search |-> "  Scenario: Search for ",
     authentication |-> "  Scenario: Successful login with valid credentials",
     registration |-> "  Scenario: Successful user registration",
     checkout |-> "  Scenario: Complete checkout process",
     generic |-> "    And the page loads successfully"]

\* the groups whose scenarios a feature file holds
GroupsIn(file) == {g \in DOMAIN GroupLine : Contains(file, GroupLine[g])}

\* the earliest group the lowercased name matches
FirstGroup(lowered) ==
    IF Has(lowered, {"search"}) THEN "search"
    ELSE IF Has(lowered, {"login", "signin", "auth"}) THEN "authentication"
    ELSE IF Has(lowered, {"register", "signup", "sign up"}) THEN "registration"
    ELSE IF Has(lowered, {"checkout", "cart", "purchase"}) THEN "checkout"
    ELSE "generic"

\* C8: the feature file holds the scenarios of exactly one group, the earliest in
\* the order search, login/signin/auth, register/signup/sign up,
\* checkout/cart/purchase, generic that the lowercased name matches.
ScenarioChainFirstMatch ==
    out # <<>> => GroupsIn(out[1]) = {FirstGroup(Lower(feature_name))}

\* a name with "login" ahead of "search" got the search scenarios alone
ScenarioChainWitness ==
    /\ out # <<>>
    /\ feature_name = "login search"
    /\ GroupsIn(out[1]) = {"search"}

GoogleLines ==
    {"in the Google search box", "  Scenario: Navigate through search result pages",
     "the \"Images\" tab", "search suggestions dropdown",
     "search results should load within"}

GenericSearchLines ==
    {"  Scenario: Search and filter results", "  Scenario: Search with empty query",
     "\"no results found\""}

\* C9: for a name containing "search" the feature file holds the Google-specific
\* scenarios if the resolved base URL contains "google" (in any letter case) and
\* the generic search scenarios if it does not, never lines of both.
GoogleIffBaseUrl ==
    (out # <<>> /\ Contains(Lower(feature_name), "search")) =>
        IF Contains(Lower(FeatureBaseUrl(context)), "google")
        THEN /\ \A l \in GoogleLines : Contains(out[1], l)
             /\ \A l \in GenericSearchLines : ~Contains(out[1], l)
        ELSE /\ \A l \in GenericSearchLines : Contains(out[1], l)
             /\ \A l \in GoogleLines : ~Contains(out[1], l)

\* "Google Search for laptops" with a url source on google.com got the Google steps
GoogleWitness ==
    /\ out # <<>>
    /\ feature_name = "Google Search for laptops"
    /\ context.context_sources = << GoogleSource >>
    /\ Contains(out[1], "in the Google search box")

\* C10: a FileSet that generate_tests builds as the default skeleton, for a name
\* whose lowercased form contains "register", "signup" or "sign up" and matches no
\* earlier group, holds a feature file with the three registration scenarios.
RegistrationThroughPipeline ==
    (/\ pc = "returned"
     /\ NoProviderCalled
     /\ Has(Lower(feature_name), {"register", "signup", "sign up"})
     /\ ~Has(Lower(feature_name), {"search", "login", "signin", "auth"}))
    => \E k \in DOMAIN test_files :
          /\ EndsWith(k, ".feature")
          /\ \A title \in {"  Scenario: Successful user registration",
                          "  Scenario: Registration with existing email",
                          "  Scenario: Registration with weak password"} :
                Contains(test_files[k], title)

\* the url-typed sources of a context, in the order of context_sources
UrlTyped(ctx) == SelectSeq(ctx.context_sources, LAMBDA source : source.type = "url")

\* the url of the first url-typed source, the placeholder if there is none
FirstUrlOrPlaceholder(ctx) ==
    IF UrlTyped(ctx) = <<>> THEN "https://example.com" ELSE UrlTyped(ctx)[1].extracted.url

KnownUrls == {"https://example.com", GoogleSource.extracted.url, ShopSource.extracted.url}

\* C11: in a default skeleton the scenario text navigates to, and config.properties
\* names as base.url, the url of the first url-typed source of context_sources (the
\* placeholder https://example.com when there is none) and no other url.
BaseUrlIsFirstUrlSource ==
    (pc = "returned" /\ DOMAIN test_files = SkeletonKeys(CleanName(feature_name))) =>
        LET feature == test_files["src/test/resources/features/"
                                      \o CleanName(feature_name) \o ".feature"]
            properties == test_files["src/test/resources/config.properties"]
        IN /\ Contains(feature, "    Given I navigate to \""
                                     \o FirstUrlOrPlaceholder(context) \o "\"")
           /\ Contains(properties, NL \o "base.url=" \o FirstUrlOrPlaceholder(context) \o NL)
           /\ \A u \in KnownUrls \ {FirstUrlOrPlaceholder(context)} :
                 ~Contains(feature, u) /\ ~Contains(properties, u)

\* a skeleton built for a context whose second source is also a url source
BaseUrlWitness ==
    /\ pc = "returned"
    /\ context.context_sources = << ShopSource, GoogleSource >>
    /\ DOMAIN test_files = SkeletonKeys(CleanName(feature_name))
    /\ Contains(test_files["src/test/resources/config.properties"],
                "base.url=https://shop.example.org")

\* the provider a config names, "openai" when it names none
NamedProvider(cfg) ==
    IF cfg = [k \in {} |-> ""] THEN "openai" ELSE cfg.llm_provider

\* the calls a finished run has made: one to the named provider if the generator
\* holds its client, none otherwise
CallsDue ==
    [openai |-> IF NamedProvider(config) = "openai" /\ openai_client THEN 1 ELSE 0,
     anthropic |-> IF NamedProvider(config) = "anthropic" /\ anthropic_client THEN 1 ELSE 0]

\* C12: a generate_tests call never calls a provider more often than once, never
\* calls a provider other than the one config names (default "openai"), and when
\* it ends it has called the named provider exactly once if a client for it
\* exists and no provider otherwise, also after a call that failed.
OneProviderCallAtMost ==
    /\ calls.openai <= CallsDue.openai
    /\ calls.anthropic <= CallsDue.anthropic
    /\ pc \in {"awaiting", "returned", "raised"} => calls = CallsDue

\* a run that named openai, held only the Anthropic client, and called nobody
OtherProviderNotCalledWitness ==
    /\ pc = "returned"
    /\ NamedProvider(config) = "openai"
    /\ ~openai_client
    /\ anthropic_client
    /\ calls = [openai |-> 0, anthropic |-> 0]
    /\ DOMAIN test_files # {}

\* the records of a provider type whose credentials give a client, in list order
GoodRecords(integrations, type) ==
    SelectSeq(integrations,
              LAMBDA r : /\ r.integration_type = type
                         /\ r.credentials.ok
                         /\ r.credentials.api_key # ""
                         /\ r.credentials.base_url # BadBaseUrl)

\* the client a record's credentials describe
ClientOf(record) ==
    [api_key |-> record.credentials.api_key, base_url |-> record.credentials.base_url]

\* C13: when the list holds records of a provider type that give a client, the
\* generator's client for that provider is the one built from the first of them;
\* later records of the type neither replace nor clear it.
FirstRecordWins ==
    (out # <<>> /\ arg.libraries) =>
        \A type \in {"openai", "anthropic"} :
            GoodRecords(arg.integrations, type) # <<>>
            => out[1][type] = ClientOf(GoodRecords(arg.integrations, type)[1])

\* C14: a provider for which no record gives a client and whose API key is in
\* the environment gets a client built from that key, whatever records the list
\* holds for the other provider.
EnvironmentFallbackPerProvider ==
    (out # <<>> /\ arg.libraries) =>
        /\ (GoodRecords(arg.integrations, "openai") = <<>>
            /\ arg.environ.OPENAI_API_KEY # "")
           => out[1].openai = [api_key |-> arg.environ.OPENAI_API_KEY, base_url |-> ""]
        /\ (GoodRecords(arg.integrations, "anthropic") = <<>>
            /\ arg.environ.ANTHROPIC_API_KEY # "")
           => out[1].anthropic = [api_key |-> arg.environ.ANTHROPIC_API_KEY, base_url |-> ""]

\* a line is blank, or starts with a bullet or a numbered prefix, without regard
\* to the white space around it
BlankLine(line) == Strip(line) = ""
BulletLine(line) ==
    \E p \in {"*", "-", BULLET, "1.", "2.", "3."} : StartsWith(Strip(line), p)

\* the lines the section of a description holds: the bullet lines after the
\* first line containing the marker and before the first later line that is
\* neither blank nor a bullet line, in order, without the white space around them
SectionCriteria(description) ==
    LET lines == Split(description, NL)
        markers == {i \in 1..Len(lines) : Contains(lines[i], "Acceptance Criteria")}
        first == CHOOSE i \in markers : \A j \in markers : i <= j
        ends == {i \in 1..Len(lines) :
                    i > first /\ ~BlankLine(lines[i]) /\ ~BulletLine(lines[i])}
        last == IF ends = {} THEN Len(lines) + 1
                ELSE CHOOSE i \in ends : \A j \in ends : i <= j
        picked == SelectSeq([i \in 1..Len(lines) |-> [at |-> i, line |-> lines[i]]],
                            LAMBDA e : e.at > first /\ e.at < last /\ BulletLine(e.line))
    IN IF markers = {} THEN <<>>
       ELSE [k \in 1..Len(picked) |-> Strip(picked[k].line)]

\* C15: _extract_acceptance_criteria returns, in order, exactly the bullet or
\* numbered lines after the first line containing "Acceptance Criteria" and
\* before the first later non-blank line that is neither; blank lines do not
\* end the section and nothing before the marker or after the end is returned.
CriteriaAreTheSection ==
    out # <<>> => out[1] = SectionCriteria(arg.description)

\* the issues the fetches made so far brought back, in the order of the fetches
FetchedIssues(requests) ==
    LET good == SelectSeq(requests, LAMBDA r : r.data # NoIssue)
    IN [k \in 1..Len(good) |-> good[k].data]

\* the issues of one type, in the order of issues
OfType(issues, type) == SelectSeq(issues, LAMBDA issue : issue.issuetype = type)

\* C16: a fetch that fails never ends extract_jira_context: the keys are fetched
\* one after the other in the order of issue_keys whatever came back before; an
\* extraction only raises on a missing configuration or on an issue that was
\* fetched; when it returns, every key was fetched and issues holds exactly the
\* fetched issues in that order (none when every fetch failed); epics and stories
\* are the issues of type Epic and Story, so disjoint sub-lists of issues.
FailedFetchIsSkipped ==
    out # <<>> =>
        LET st == out[1]
        IN /\ \A k \in 1..Len(st.requests) : st.requests[k].key = arg.issue_keys[k]
           /\ st.next = Len(st.requests) + 1
           /\ st.status = "raised" =>
                 \/ MissingJiraConfig(arg)
                 \/ st.requests[Len(st.requests)].data # NoIssue
           /\ st.status \in {"running", "returned"} =>
                 /\ st.context.issues = FetchedIssues(st.requests)
                 /\ st.context.epics = OfType(st.context.issues, "Epic")
                 /\ st.context.stories = OfType(st.context.issues, "Story")
                 /\ \A e \in 1..Len(st.context.epics), s \in 1..Len(st.context.stories) :
                       st.context.epics[e] # st.context.stories[s]
           /\ st.status = "returned" => Len(st.requests) = Len(arg.issue_keys)

\* an extraction returned after its first and third fetch failed
FailedFetchWitness ==
    /\ out # <<>>
    /\ out[1].status = "returned"
    /\ Len(out[1].requests) = 3
    /\ out[1].requests[1].data = NoIssue
    /\ out[1].requests[2].data # NoIssue
    /\ out[1].requests[3].data = NoIssue
    /\ Len(out[1].context.issues) = 1

\* an extraction returned with no issue after every fetch failed
AllFetchesFailedWitness ==
    /\ out # <<>>
    /\ out[1].status = "returned"
    /\ Len(out[1].requests) = 2
    /\ \A k \in 1..2 : out[1].requests[k].data = NoIssue
    /\ out[1].context.issues = <<>>

\* the file is to be parsed: by its declared type or by its extension
IsStructuredFile(file_config) ==
    \/ file_config.file_type \in {"yaml", "json"}
    \/ \E ext \in {".yml", ".yaml", ".json"} :
          Len(file_config.file_path) >= Len(ext)
          /\ SubSeq(file_config.file_path,
                    Len(file_config.file_path) - Len(ext) + 1,
                    Len(file_config.file_path)) = ext

\* C17: the record extract_file_context returns holds the file's raw text in
\* content; for a file of declared type yaml or json or of extension .yml, .yaml
\* or .json it also holds the parsed data in structured_data, for any other file
\* structured_data is empty.
FileContextKeepsRawText ==
    (out # <<>> /\ ~out[1].raised) =>
        /\ out[1].content = arg.text
        /\ IF IsStructuredFile(arg)
           THEN out[1].structured_data \in {YamlSafeLoad(arg.text), JsonLoad(arg.text)} \ {ParseError}
           ELSE out[1].structured_data = "{}"

\* the places on the page of the anchors the links were made from
LinkPlaces ==
    [k \in 1..Len(out[1].links) |->
        CHOOSE i \in 1..Len(arg.anchors) :
            out[1].links[k].href = "/page/" \o ToString(arg.anchors[i].at)]

\* the places of the page's anchors that have an href attribute, in order
HrefPlaces ==
    LET with == SelectSeq(arg.anchors, LAMBDA a : a.has_href)
    IN [k \in 1..Len(with) |-> with[k].at]

\* C18 as stated: links holds the first min(50, n) of the page's n anchor tags in
\* document order, so exactly 50 for a page of 75 anchor tags.
LinksAreFirstFiftyAnchors ==
    (out # <<>> /\ ~out[1].raised) =>
        /\ Len(out[1].links) = IF Len(arg.anchors) > 50 THEN 50 ELSE Len(arg.anchors)
        /\ \A k \in 1..Len(out[1].links) : LinkPlaces[k] = k

\* C18, amended: links holds the first min(50, m) of the page's m anchor tags
\* that have an href attribute, in document order; anchors without an href are
\* not links and are not counted.
LinksAreFirstFiftyHrefAnchors ==
    (out # <<>> /\ ~out[1].raised) =>
        /\ Len(out[1].links) = IF Len(HrefPlaces) > 50 THEN 50 ELSE Len(HrefPlaces)
        /\ \A k \in 1..Len(out[1].links) : LinkPlaces[k] = HrefPlaces[k]

\* a page of 75 anchors, all with an href, gave exactly 50 links
LinksTruncatedWitness ==
    /\ out # <<>>
    /\ ~out[1].raised
    /\ Len(arg.anchors) = 75
    /\ \A i \in 1..75 : arg.anchors[i].has_href
    /\ Len(out[1].links) = 50
    /\ out[1].links[50].href = "/page/50"

\* the text that opens the section of a jira, url or file source
SectionOpening(source) ==
    IF source.type = "jira"
    THEN "### Jira Issues:" \o NL \o NL \o "- **" \o source.extracted.issues[1].key \o "**: "
    ELSE IF source.type = "url"
    THEN "### Web Application Analysis:" \o NL \o "- **Target URL**: "
         \o source.extracted.url \o NL
    ELSE "### File Content:" \o NL \o "- File: " \o source.extracted.file_name \o NL

\* the places in context_sources of the jira, url and file sources
Rendered == {i \in 1..Len(arg.context_sources) :
                arg.context_sources[i].type \in {"jira", "url", "file"}}

\* where the section of the i-th source opens in the prompt, 0 if nowhere
SectionAt(i) == Find(out[1], SectionOpening(arg.context_sources[i]))

\* C19: in the prompt the sections of the jira, url and file sources stand in the
\* order of context_sources, whatever the mix, and the requirements block stands
\* after all of them.
SectionsInSourceOrder ==
    out # <<>> =>
        /\ \A i \in Rendered : SectionAt(i) > 0
        /\ \A i, j \in Rendered : i < j => SectionAt(i) < SectionAt(j)
        /\ Find(out[1], "## Test Generation Requirements:") > 0
        /\ \A i \in Rendered :
              SectionAt(i) < Find(out[1], "## Test Generation Requirements:")

\* a prompt was built from a file source, then a jira source, then a url source
MixedSourcesWitness ==
    /\ out # <<>>
    /\ Len(arg.context_sources) = 3
    /\ arg.context_sources[1].type = "file"
    /\ arg.context_sources[2].type = "jira"
    /\ arg.context_sources[3].type = "url"
    /\ 0 < SectionAt(1)
    /\ SectionAt(1) < SectionAt(2)
    /\ SectionAt(2) < SectionAt(3)

\* C20: in every state of the lifecycle a generation recorded as completed has a
\* non-empty generated_files mapping.
CompletedHasFiles ==
    (out # <<>> /\ out[1].status = "completed") => DOMAIN out[1].generated_files # {}

\* a generation ran to completed and its files were recorded
CompletedWitness ==
    /\ out # <<>>
    /\ out[1].status = "completed"
    /\ pc = "returned"
    /\ out[1].generated_files = test_files
    /\ "README.md" \in DOMAIN out[1].generated_files

\* a generation failed because generate_tests raised; it holds no files
FailedWitness ==
    /\ out # <<>>
    /\ out[1].status = "failed"
    /\ pc = "raised"
    /\ DOMAIN out[1].generated_files = {}


\* the stages an event may carry
Stages == {"initializing", "extracting_context", "generating_tests", "saving_files",
           "completed", "failed"}

\* C21: the events of one generation come in the order initializing,
\* extracting_context, generating_tests, saving_files, completed with strictly
\* increasing progress; every event, the one of a failure included, carries a stage
\* of Stages and a progress in 0..100; no event follows a completed or failed one.
ProgressEventsWellFormed ==
    out # <<>> =>
        LET ev == out[1].progress
        IN /\ \A k \in 1..Len(ev) :
                /\ "stage" \in DOMAIN ev[k]
                /\ ev[k].stage \in Stages
                /\ "progress" \in DOMAIN ev[k]
                /\ ev[k].progress \in 0..100
           /\ \A k \in 1..(Len(ev) - 1) :
                /\ ev[k].progress < ev[k + 1].progress
                /\ ev[k].status \notin {"completed", "failed"}
           /\ \A k \in 1..Len(ev) :
                ev[k].stage = << "initializing", "extracting_context", "generating_tests",
                                 "saving_files", "completed" >>[k]


\* the clients of the generator a request gets when it runs alone
AloneClients(request) ==
    _initialize_clients_from_integrations(request.integrations, request.environ, TRUE)

\* whether a request run alone calls a provider
AloneCalls(request) ==
    \/ LlmProvider(request.config) = "openai" /\ AloneClients(request).openai # NoClient
    \/ LlmProvider(request.config) = "anthropic" /\ AloneClients(request).anthropic # NoClient

\* the FileSet a request returns when it runs alone and its provider call, if it
\* makes one, has the given outcome
AloneFiles(request, reply) ==
    IF AloneCalls(request) /\ reply.kind = "text"
    THEN _parse_generated_content(reply.text, request.feature_name, TaskContext)
    ELSE _parse_generated_content(TaskMock(request), request.feature_name, TaskContext)

\* C22: of two requests run concurrently, under every interleaving, each makes the
\* provider call it makes alone, with its own prompt, and returns the FileSet it
\* returns alone.
RequestsDoNotInterfere ==
    \A t \in 1..Len(out) :
        /\ out[t].pc \in {"awaiting_openai", "blocked_anthropic"} => AloneCalls(arg[t])
        /\ out[t].pc \in {"awaiting_openai", "blocked_anthropic", "returned", "raised"} =>
              out[t].prompt =
                  _build_generation_prompt(arg[t].feature_name, TaskContext, arg[t].config)
        /\ out[t].pc = "returned" =>
              /\ (out[t].reply = NoReply) = ~AloneCalls(arg[t])
              /\ out[t].test_files = AloneFiles(arg[t], out[t].reply)

\* two different requests both returned, the second while the first was suspended
\* in its OpenAI call
InterleavedWitness ==
    /\ Len(out) = 2
    /\ arg[1].feature_name # arg[2].feature_name
    /\ out[1].pc = "awaiting_openai"
    /\ out[2].pc = "returned"
    /\ out[2].reply = NoReply
    /\ out[2].test_files = AloneFiles(arg[2], NoReply)

\* a task waits for the reply of an outbound call
Waiting(task) == task.pc \in {"awaiting_openai", "blocked_anthropic"}

\* C23: every outbound call is a suspension point: while one request waits for the
\* reply of its provider call, the task of another request that has steps left can
\* take one.
OutboundCallsSuspend ==
    \A t, u \in 1..Len(out) :
        (t # u /\ Waiting(out[t]) /\ out[u].pc \in {"created", "constructed"})
            => ENABLED TaskStep(u)


\* a required input of the extraction is missing or unreachable
RequiredInputFails(source_data) ==
    LET c == source_data.source_config
    IN \/ source_data.source_type = "jira"
          /\ (c.jira_url = "" \/ c.username = "" \/ c.api_token = "" \/ c.issue_keys = <<>>)
       \/ source_data.source_type = "url" /\ (c.url = "" \/ ~c.fetched)
       \/ source_data.source_type = "file" /\ (c.file_path = "" \/ ~c.exists)

\* C24: a call of create_context_source whose extraction fails in a required
\* input (missing config field, missing file, failed page fetch) answers with an
\* explicit error and leaves the project's list of context sources as it was.
FailedExtractionStoresNothing ==
    [][(Len(log') = Len(log) + 1 /\ RequiredInputFails(log'[Len(log')].request))
          => (log'[Len(log')].status_code = 400 /\ out' = out)]_vars

\* a source was stored, and then a call with a missing file was refused and the
\* list still holds the one source
RefusedSourceWitness ==
    /\ Len(log) = 2
    /\ log[1].status_code = 200
    /\ log[2].status_code = 400
    /\ log[2].request.source_type = "file"
    /\ ~log[2].request.source_config.exists
    /\ Len(out) = 1
    /\ out[1].source_type = log[1].request.source_type


\* C25: on the fallback path (no provider called, or the provider call raised)
\* the FileSet returned is exactly the default skeleton of the feature name and
\* context, for every feature name: no line of the mock text is taken as a file
\* marker.
FallbackIsDefaultSkeleton ==
    (pc = "returned" /\ (NoProviderCalled \/ FellBack)) =>
        /\ NoMarkerLine(generated_content.text)
        /\ test_files = _create_default_test_structure(
                            feature_name, generated_content.text, context)


\* the status of the record changes from one value to another in this step
StatusMoves(from, to) ==
    /\ out # <<>> /\ out' # <<>>
    /\ out[1].status = from
    /\ out'[1].status = to

\* generated_files is written only in a step that sets completed
FilesWrittenWithCompleted ==
    (out # <<>> /\ out' # <<>> /\ out'[1].generated_files # out[1].generated_files)
        => (out[1].status # "completed" /\ out'[1].status = "completed")

\* C26 as stated: the status only moves pending -> processing -> completed or
\* pending -> processing -> failed, completed and failed are never left, and
\* generated_files is written only in the step that sets completed.
StatusMovesThroughProcessing ==
    [][/\ \A from, to \in {"pending", "processing", "completed", "failed"} :
             (from # to /\ StatusMoves(from, to))
                 => << from, to >> \in {<< "pending", "processing" >>,
                                        << "processing", "completed" >>,
                                        << "processing", "failed" >>}
       /\ FilesWrittenWithCompleted]_vars

\* C26, amended: the status only moves pending -> processing, processing ->
\* completed, processing -> failed, and pending -> failed when the first database
\* write of the task raises; completed and failed are never left, completed is
\* reached from processing only, and generated_files is written only in the step
\* that sets completed.
StatusMovesForward ==
    [][/\ \A from, to \in {"pending", "processing", "completed", "failed"} :
             (from # to /\ StatusMoves(from, to))
                 => << from, to >> \in {<< "pending", "processing" >>,
                                        << "processing", "completed" >>,
                                        << "processing", "failed" >>,
                                        << "pending", "failed" >>}
       /\ FilesWrittenWithCompleted]_vars

\* the record went from pending to failed: the only event is the failed one
PendingToFailedWitness ==
    /\ out # <<>>
    /\ out[1].status = "failed"
    /\ out[1].db_failed
    /\ out[1].progress = << FailedEvent("OperationalError") >>

\* C27: under fair scheduling every generation whose task was started reaches
\* completed or failed, also when a database write raises.
GenerationEventuallySettles ==
    (out # <<>>) ~> (out # <<>> /\ out[1].status \in {"completed", "failed"})

\* C29: progress delivery never changes the outcome: with no websocket, an open
\* one or one whose send raises, a generation whose database writes succeed ends
\* completed with the files generate_tests returned, or failed with its error.
DeliveryDoesNotChangeOutcome ==
    (out # <<>> /\ out[1].task = "ended" /\ ~out[1].db_failed) =>
        IF pc = "returned"
        THEN out[1].status = "completed" /\ out[1].generated_files = test_files
        ELSE out[1].status = "failed" /\ out[1].error_message = error
             /\ out[1].generated_files = EmptyFiles

\* a generation completed although its last two events reached no websocket
SendRaisedWitness ==
    /\ out # <<>>
    /\ out[1].status = "completed"
    /\ out[1].generated_files = test_files
    /\ Len(out[1].progress) = 5
    /\ Len(out[1].delivered) = 3
    /\ out[1].connection = "none"


\* C28: a disconnect removes only the registration of the websocket that
\* disconnected: the client that connected last and is still open stays
\* registered and receives every progress event sent after it connected.
LastClientStaysRegistered ==
    (out # <<>> /\ out[1].last \in out[1].open) =>
        /\ out[1].active_connections = out[1].last
        /\ out[1].got_since = out[1].sent_since


\* the Google vocabulary of the step-definition class: the search box by name q,
\* the button btnK, the result container of id search
GoogleStepLines == {"By.name(\"q\")", "By.name(\"btnK\")", "By.id(\"search\")"}

\* C30: in the default skeleton the step-definition class holds the Google
\* vocabulary if and only if the feature file holds the Google-specific search
\* scenarios.
GoogleStepsIffGoogleScenarios ==
    (/\ pc = "returned"
     /\ NoProviderCalled
     /\ DOMAIN test_files = SkeletonKeys(CleanName(feature_name)))
    => LET clean_name == CleanName(feature_name)
           steps == test_files["src/test/java/stepdefinitions/" \o clean_name
                               \o "_steps.java"]
           feature == test_files["src/test/resources/features/" \o clean_name
                                 \o ".feature"]
       IN (\A l \in GoogleStepLines : Contains(steps, l))
              <=> (\A l \in GoogleLines : Contains(feature, l))
====
